---- MODULE Spec2Model ----
(***************************************************************************)
(* Connection-graph cache of pbot-web: the text interaction scorer, the    *)
(* delete-then-insert recalculation of a (guild, timeRange) bucket, the    *)
(* staleness gate of getVoiceGraph / getTextGraph / getCombinedTopFriends  *)
(* and the activity weight.                                                *)
(*                                                                         *)
(* Time is in milliseconds (Date.getTime()).  A JavaScript number that is  *)
(* a fraction is kept exact: an interaction score is carried as its        *)
(* numerator over PROXIMITY_WINDOW_MS until it is rounded, a stored        *)
(* interaction_score is in hundredths (Math.round(x * 100) / 100), and a   *)
(* weight is a record [num, den].  Floating-point rounding error of the    *)
(* sums is not modelled.                                                   *)
(*                                                                         *)
(* A user id is a string of digits, modelled as the sequence of its        *)
(* digits so that the `<` of two strings is the lexicographic one.         *)
(***************************************************************************)
EXTENDS Integers, Sequences, FiniteSets, Bags, TLC

VARIABLES
    now,               \* the wall clock, ms
    messages,          \* table messages, in the order of created_at
    text_connections,  \* table text_connections: a bag of rows
    voice_connections, \* table voice_connections: a bag of rows
    voice_sessions,    \* table voice_sessions: a set of rows
    member_levels,     \* table member_levels: a sequence of rows
    rpcAvailable,      \* does the datastore expose calculate_text_connections
    faults,            \* the queries that the datastore answers with an error
    callers,           \* the request contexts that may run a call
    call,              \* per caller: the call in progress, its locals, its result
    selectedRange,     \* per graph component: the time range selected (timeRange)
    graphData,         \* per graph component: the selection whose graph is shown
    loads,             \* per graph component: its loadData runs, oldest first
    imageCache,        \* avatar cache of a graph module: url -> Image
    loadingCallbacks,  \* of the same module: url -> callbacks awaiting the load
    images,            \* the Image objects created, each with its url and state
    timeline           \* the session row rendered by VoiceTimeline and its segments

\* the state of the graph components in the browser
uiVars == <<selectedRange, graphData, loads, imageCache, loadingCallbacks, images,
           timeline>>

vars == <<now, messages, text_connections, voice_connections, voice_sessions,
          member_levels, rpcAvailable, faults, callers, call, uiVars>>

\* null of a nullable number (a timestamp, a count, a number of days)
NULL == 0 - 1

\* ---------------------------------------------------------------- bounds
MaxMsgs == 3
MaxConcMsgs == 2
MaxMembers == 2
MaxFriends == 2
MaxConns == 3
MaxSessions == 2
MaxTick == 1
MaxImages == 3
MaxLoads == 3
MaxChanges == 2
MaxFaults == 1
MaxRows == 4

\* ------------------------------------------------------------- constants
PROXIMITY_WINDOW_MS == 300000
BATCH_SIZE == 500
MS_PER_HOUR == 3600000
MS_PER_DAY == 86400000
DEFAULT_MAX_AGE_HOURS == 24

Procs == {"p1", "p2"}
\* the three graph components; useState('30d') in each
GraphComponents ==
    {"TextConnectionGraph", "CombinedConnectionGraph", "VoiceConnectionGraph"}
DEFAULT_TIME_RANGE == "30d"
\* the urls asked for: no url (null), two avatars, the default avatar
DEFAULT_AVATAR == "embed/avatars/0.png"
NoUrl == ""
ImageUrls == {"a.png", "b.png", DEFAULT_AVATAR}
\* the onLoad callbacks; NoCallback when the argument is left out
NoCallback == "none"
Callbacks == {"triggerRepaint", "onLoad"}
Guilds == {"g1"}
TimeRanges == {"30d", "90d", "all"}
Users == {<<1>>, <<1, 0>>, <<9>>}
Channels == {"c1", "c2"}
\* created_at of a message: two messages can be 0 ms, 1 ms, 2.5 minutes,
\* 5 minutes (1 and 300001), 5 minutes and 1 ms apart
Times == {0, 1, 150000, 300001}
\* the wall clock when the calls are made
NowAtStart == 400000

TIME_RANGE_DAYS(timeRange) ==
    CASE timeRange = "30d" -> 30
      [] timeRange = "90d" -> 90
      [] timeRange = "all" -> NULL

\* ---------------------------------------------------------------- helpers
Min(a, b) == IF a < b THEN a ELSE b
Max(a, b) == IF a > b THEN a ELSE b
Abs(x) == IF x < 0 THEN -x ELSE x

\* JavaScript's a < b on two strings of digits: the first differing code
\* unit decides, and a proper prefix is the smaller one.
RECURSIVE StrLess(_, _)
StrLess(a, b) ==
    IF b = <<>> THEN FALSE
    ELSE IF a = <<>> THEN TRUE
    ELSE IF Head(a) # Head(b) THEN Head(a) < Head(b)
    ELSE StrLess(Tail(a), Tail(b))

RECURSIVE SeqToBag(_)
SeqToBag(s) ==
    IF s = <<>> THEN EmptyBag ELSE SetToBag({Head(s)}) (+) SeqToBag(Tail(s))

InBucketOfGuild(row, guildId, timeRange) == row.guild_id = guildId
InBucket(row, guildId, timeRange) ==
    row.guild_id = guildId /\ row.time_range = timeRange

\* .eq('guild_id', g).eq('time_range', r) on a table held as a bag
BucketOf(table, guildId, timeRange) ==
    LET keep == {r \in DOMAIN table : InBucket(r, guildId, timeRange)}
    IN  [r \in keep |-> table[r]]

\* .delete().eq('guild_id', g).eq('time_range', r)
DeleteNothing(table, guildId, timeRange) == table
DeleteBucket(table, guildId, timeRange) ==
    LET keep == {r \in DOMAIN table : ~InBucket(r, guildId, timeRange)}
    IN  [r \in keep |-> table[r]]


\* ------------------------------------------------- text interaction scorer
\* lines 131-135: created_at >= now - days, for days = 30 or 90; 'all' has no
\* lower bound.  (at - t <= days * MS_PER_DAY, written without the product.)
InWindow(t, days, at) ==
    \/ days = NULL
    \/ (at - t) \div MS_PER_DAY < days
    \/ (at - t) \div MS_PER_DAY = days /\ (at - t) % MS_PER_DAY = 0

\* the rows the messages query returns: one guild, the window, created_at order
QueryMessages(guildId, days, at) ==
    SelectSeq(messages,
              LAMBDA m : m.guild_id = guildId /\ InWindow(m.created_at, days, at))

\* Map channelMessages: its keys, in the order of their first message
RECURSIVE ChannelOrder(_, _)
ChannelOrder(msgs, seen) ==
    IF msgs = <<>> THEN <<>>
    ELSE IF Head(msgs).channel_id \in seen THEN ChannelOrder(Tail(msgs), seen)
    ELSE <<Head(msgs).channel_id>>
         \o ChannelOrder(Tail(msgs), seen \cup {Head(msgs).channel_id})

ChannelMsgs(msgs, channelId) ==
    SelectSeq(msgs, LAMBDA m : m.channel_id = channelId)

\* lines 177-181: the smaller user id first
PairKeyAsGiven(a, b) == <<a, b>>
PairKey(a, b) == IF StrLess(a, b) THEN <<a, b>> ELSE <<b, a>>

\* line 193, as a numerator over PROXIMITY_WINDOW_MS
ProximityScoreNoDecay(timeDiff) == PROXIMITY_WINDOW_MS
ProximityScore(timeDiff) == PROXIMITY_WINDOW_MS - timeDiff

\* connectionScores.get(key): the index of the entry, 0 when there is none
MapIndexNever(scores, key) == 0
MapIndex(scores, key) ==
    LET hits == {k \in 1..Len(scores) : scores[k].key = key}
    IN  IF hits = {} THEN 0 ELSE CHOOSE k \in hits : TRUE

\* lines 195: existing.channels.add(channelId)
ChannelsAddCount(channels, channelId) == channels \cup {<<channelId, Cardinality(channels)>>}
ChannelsAdd(channels, channelId) == channels \cup {channelId}

\* lines 164-197: the body of the inner loop for one pair of messages
AddPair(scores, channelId, msg1, msg2) ==
    IF msg1.user_id = msg2.user_id THEN scores
    ELSE LET timeDiff == Abs(msg2.created_at - msg1.created_at) IN
         IF timeDiff > PROXIMITY_WINDOW_MS THEN scores
         ELSE LET key == PairKey(msg1.user_id, msg2.user_id)
                  at == MapIndex(scores, key)
                  existing == IF at # 0 THEN scores[at]
                              ELSE [key |-> key,
                                    user_id_1 |-> key[1],
                                    user_id_2 |-> key[2],
                                    interaction_score |-> 0,
                                    channels |-> {}]
                  updated == [existing EXCEPT
                                !.interaction_score = @ + ProximityScore(timeDiff),
                                !.channels = ChannelsAdd(@, channelId)]
              IN  IF at # 0 THEN [scores EXCEPT ![at] = updated]
                  ELSE Append(scores, updated)

\* lines 162-199: for i, for j = i + 1
RECURSIVE ScanPairs(_, _, _, _, _)
ScanPairs(scores, channelId, channelMsgs, i, j) ==
    IF i > Len(channelMsgs) THEN scores
    ELSE IF j > Len(channelMsgs)
         THEN ScanPairs(scores, channelId, channelMsgs, i + 1, i + 2)
         ELSE ScanPairs(AddPair(scores, channelId, channelMsgs[i], channelMsgs[j]),
                        channelId, channelMsgs, i, j + 1)

\* lines 160-200: for each channel of channelMessages
RECURSIVE ScanChannels(_, _, _)
ScanChannels(scores, msgs, chans) ==
    IF chans = <<>> THEN scores
    ELSE ScanChannels(
             ScanPairs(scores, Head(chans), ChannelMsgs(msgs, Head(chans)), 1, 2),
             msgs, Tail(chans))

ConnectionScores(msgs) == ScanChannels(<<>>, msgs, ChannelOrder(msgs, {}))

\* line 209: Math.round(interaction_score * 100) / 100, in hundredths
RoundTo2Decimals(scoreNum) ==
    (scoreNum * 100 + PROXIMITY_WINDOW_MS \div 2) \div PROXIMITY_WINDOW_MS

\* lines 203-212: the rows to insert
ConnectionRows(scores, guildId, timeRange, calculatedAt) ==
    [k \in 1..Len(scores) |->
        [guild_id |-> guildId,
         time_range |-> timeRange,
         user_id_1 |-> scores[k].user_id_1,
         user_id_2 |-> scores[k].user_id_2,
         shared_channel_count |-> Cardinality(scores[k].channels),
         interaction_score |-> RoundTo2Decimals(scores[k].interaction_score),
         message_count |-> 0,
         calculated_at |-> calculatedAt]]

\* the rows the stored procedure calculate_text_connections writes: the
\* contract of the client-side scorer
RpcTextRows(guildId, timeRange, at) ==
    ConnectionRows(ConnectionScores(QueryMessages(guildId, TIME_RANGE_DAYS(timeRange), at)),
                   guildId, timeRange, at)


\* ------------------------------------------------------------ call state
Idle ==
    [op |-> "none", pc |-> "idle", guildId |-> "none", timeRange |-> "none",
     maxAgeHours |-> 0, userId |-> <<>>, limit |-> 0,
     lastCalculated |-> NULL, nowRead |-> NULL, isStale |-> FALSE,
     hasActiveSessions |-> FALSE,
     msgs |-> <<>>, connections |-> <<>>, i |-> 0,
     recalcStarted |-> FALSE, recalcDone |-> FALSE, fallback |-> FALSE,
     before |-> EmptyBag, errors |-> {},
     nodes |-> <<>>, edges |-> <<>>, friends |-> <<>>, calculatedAt |-> NULL,
     weight |-> [voiceWeight |-> [num |-> 0, den |-> 1],
                 textWeight |-> [num |-> 0, den |-> 1],
                 totalVoiceMinutes |-> 0, totalMessages |-> 0],
     friendMap |-> <<>>]

\* where a call goes on once its recalculation has finished
AfterCalc(c) == IF c.op = "calculateTextConnections" THEN "returned" ELSE "readText"

\* the datastore answers the query with an error
Fails(query) == query \in faults

\* if (error) throw error: the call ends with the exception
Throw(c, query) == [c EXCEPT !.pc = "failed", !.errors = @ \cup {query}]

\* the error is ignored or only logged: the call goes on
Swallow(c, query) == [c EXCEPT !.errors = @ \cup {query}]

\* ---------------------------------------------- calculateTextConnections
StartCalculateTextConnections(p, guildId, timeRange) ==
    /\ p \in callers
    /\ call[p].pc = "idle"
    /\ call' = [call EXCEPT ![p] =
                   [Idle EXCEPT !.op = "calculateTextConnections", !.pc = "delete",
                                !.guildId = guildId, !.timeRange = timeRange]]
    /\ UNCHANGED <<now, messages, text_connections, voice_connections,
                   voice_sessions, member_levels, rpcAvailable, faults, callers, uiVars>>

\* lines 92-97: the existing rows of the bucket are deleted; the error of the
\* delete is not read.  (A table that only grows is followed up to MaxRows rows.)
CalcDelete(p) ==
    /\ p \in callers
    /\ call[p].pc = "delete"
    /\ Fails("textDelete") => BagCardinality(text_connections) <= MaxRows
    /\ text_connections' =
           IF Fails("textDelete") THEN text_connections
           ELSE DeleteBucket(text_connections, call[p].guildId, call[p].timeRange)
    /\ call' = [call EXCEPT ![p].pc = "rpc", ![p].recalcStarted = TRUE,
                            ![p].before = BucketOf(text_connections,
                                                   call[p].guildId, call[p].timeRange),
                            ![p].errors = IF Fails("textDelete")
                                          THEN @ \cup {"textDelete"} ELSE @]
    /\ UNCHANGED <<now, messages, voice_connections, voice_sessions,
                   member_levels, rpcAvailable, faults, callers, uiVars>>

\* lines 108-112: any error of the procedure call, a missing procedure
\* included, is answered with the client-side calculation
OnRpcErrorThrow(c) == Throw(c, "textRpc")
OnRpcError(c) == [c EXCEPT !.pc = "query", !.fallback = TRUE]

\* lines 102-112: the stored procedure; any error selects the fallback
CalcRpc(p) ==
    /\ p \in callers
    /\ call[p].pc = "rpc"
    /\ IF rpcAvailable
       THEN /\ text_connections' = text_connections
                  (+) SeqToBag(RpcTextRows(call[p].guildId, call[p].timeRange, now))
            /\ call' = [call EXCEPT ![p].pc = AfterCalc(call[p]),
                                    ![p].recalcDone = TRUE]
       ELSE /\ text_connections' = text_connections
            /\ call' = [call EXCEPT ![p] = OnRpcError(call[p])]
    /\ UNCHANGED <<now, messages, voice_connections, voice_sessions,
                   member_levels, rpcAvailable, faults, callers, uiVars>>

\* line 211: calculated_at is new Date() read anew for each row; the stamps
\* of n rows read from `at` on while the clock advances by at most maxTick ms
StampLists(n, at, maxTick) ==
    {s \in [1..n -> at..(at + maxTick)] : \A k \in 1..(n - 1) : s[k] <= s[k + 1]}

\* lines 125-212: the lower bound of the window is derived from new Date()
\* (line 132), the messages are read and scored, and each row is stamped; the
\* clock advances by at most maxTick ms from the first reading to the last
CalcQueryStamped(p, maxTick) ==
    /\ p \in callers
    /\ call[p].pc = "query"
    /\ LET msgs == QueryMessages(call[p].guildId,
                                 TIME_RANGE_DAYS(call[p].timeRange), now)
           scored == ConnectionRows(ConnectionScores(msgs), call[p].guildId,
                                    call[p].timeRange, now)
       IN  IF Fails("messages")
           THEN /\ call' = [call EXCEPT ![p] = Throw(call[p], "messages")]
                /\ now' = now
           ELSE
           \E stamps \in StampLists(Len(scored), now, maxTick) :
              LET connections == [k \in 1..Len(scored) |->
                                     [scored[k] EXCEPT !.calculated_at = stamps[k]]]
              IN  /\ call' = [call EXCEPT
                          ![p].msgs = msgs,
                          ![p].connections = IF Len(msgs) = 0 THEN <<>> ELSE connections,
                          ![p].i = 0,
                          ![p].pc = IF Len(msgs) = 0 \/ Len(connections) = 0
                                    THEN AfterCalc(call[p]) ELSE "insert",
                          ![p].recalcDone = (Len(msgs) = 0 \/ Len(connections) = 0)]
                  /\ now' = IF Len(scored) = 0 THEN now ELSE stamps[Len(scored)]
    /\ UNCHANGED <<messages, text_connections, voice_connections,
                   voice_sessions, member_levels, rpcAvailable, faults, callers, uiVars>>

\* the same with a clock that stands still while the rows are built
CalcQuery(p) == CalcQueryStamped(p, 0)

\* lines 214-227: one batch is inserted
CalcInsert(p) ==
    /\ p \in callers
    /\ call[p].pc = "insert"
    /\ LET c == call[p]
           batch == SubSeq(c.connections, c.i + 1,
                           Min(c.i + BATCH_SIZE, Len(c.connections)))
           last == c.i + BATCH_SIZE >= Len(c.connections)
       IN  /\ text_connections' = IF Fails("textInsert") THEN text_connections
                                  ELSE text_connections (+) SeqToBag(batch)
           /\ call' = [call EXCEPT ![p].i = c.i + BATCH_SIZE,
                                   ![p].pc = IF last THEN AfterCalc(c) ELSE "insert",
                                   ![p].recalcDone = last,
                                   ![p].errors = IF Fails("textInsert")
                                                 THEN @ \cup {"textInsert"} ELSE @]
    /\ UNCHANGED <<now, messages, voice_connections, voice_sessions,
                   member_levels, rpcAvailable, faults, callers, uiVars>>

\* the caller takes the result or the exception; the request context is
\* free again
Return(p) ==
    /\ p \in callers
    /\ call[p].pc \in {"returned", "failed"}
    /\ call' = [call EXCEPT ![p] = Idle]
    /\ UNCHANGED <<now, messages, text_connections, voice_connections,
                   voice_sessions, member_levels, rpcAvailable, faults, callers, uiVars>>

\* ------------------------------------------------------ staleness gate
\* part_007 lines 147-149, text-connections.ts lines 400-402 and 502-504
IsStaleAtBoundary(lastCalculated, nowMs, maxAgeHours) ==
    \/ lastCalculated = NULL
    \/ nowMs - lastCalculated >= maxAgeHours * MS_PER_HOUR
IsStale(lastCalculated, nowMs, maxAgeHours) ==
    \/ lastCalculated = NULL
    \/ nowMs - lastCalculated > maxAgeHours * MS_PER_HOUR

LastCalculatedOfEpoch(table, guildId, timeRange) ==
    LET bucket == BucketOf(table, guildId, timeRange)
    IN  IF DOMAIN bucket = {} THEN {0}
        ELSE {r.calculated_at : r \in DOMAIN bucket}

\* .select('calculated_at')...limit(1).single(): the calculated_at of some row
\* of the bucket, null when it has none (PGRST116)
LastCalculatedOf(table, guildId, timeRange) ==
    LET bucket == BucketOf(table, guildId, timeRange)
    IN  IF DOMAIN bucket = {} THEN {NULL}
        ELSE {r.calculated_at : r \in DOMAIN bucket}

\* the rows of a bag as the datastore may return them
RowLists(bag) ==
    {s \in [1..BagCardinality(bag) -> DOMAIN bag] :
        \A r \in DOMAIN bag : Cardinality({k \in DOMAIN s : s[k] = r}) = bag[r]}

\* .order(column, { ascending: false }): rows with equal values in any order
OrderedDesc(bag, column) ==
    {s \in RowLists(bag) :
        \A k \in 1..(Len(s) - 1) : s[k][column] >= s[k + 1][column]}

\* ------------------------------------------------------ graph transformer
NodeIndex(nodeMap, id) ==
    LET hits == {k \in 1..Len(nodeMap) : nodeMap[k].id = id}
    IN  IF hits = {} THEN 0 ELSE CHOOSE k \in hits : TRUE

AddOrUpdateNodeFirstOnly(nodeMap, id, metric) ==
    LET at == NodeIndex(nodeMap, id)
    IN  IF at # 0
        THEN [nodeMap EXCEPT ![at].totalConnections = @ + 1]
        ELSE Append(nodeMap, [id |-> id, totalConnections |-> 1, total |-> metric])

\* "Add/update user": part_007 lines 85-98, text-connections.ts lines 338-351
AddOrUpdateNode(nodeMap, id, metric) ==
    LET at == NodeIndex(nodeMap, id)
    IN  IF at # 0
        THEN [nodeMap EXCEPT ![at].totalConnections = @ + 1,
                             ![at].total = @ + metric]
        ELSE Append(nodeMap, [id |-> id, totalConnections |-> 1, total |-> metric])

\* connections.map(...) as far as it fills nodeMap; metrics[k] is the primary
\* metric of connections[k]
RECURSIVE FoldNodes(_, _, _)
FoldNodes(nodeMap, connections, metrics) ==
    IF connections = <<>> THEN nodeMap
    ELSE LET conn == Head(connections)
             m == Head(metrics)
         IN  FoldNodes(AddOrUpdateNode(AddOrUpdateNode(nodeMap, conn.user_id_1, m),
                                       conn.user_id_2, m),
                       Tail(connections), Tail(metrics))

transformToGraphReversed(connections) ==
    [nodes |-> FoldNodes(<<>>, connections,
                         [k \in 1..Len(connections) |-> connections[k].shared_seconds]),
     edges |-> [k \in 1..Len(connections) |->
                   LET conn == connections[Len(connections) + 1 - k]
                   IN  [source |-> conn.user_id_1,
                        target |-> conn.user_id_2,
                        sharedSeconds |-> conn.shared_seconds,
                        sessionCount |-> conn.session_count]]]

\* part_007 lines 77-127
transformToGraph(connections) ==
    [nodes |-> FoldNodes(<<>>, connections,
                         [k \in 1..Len(connections) |-> connections[k].shared_seconds]),
     edges |-> [k \in 1..Len(connections) |->
                   [source |-> connections[k].user_id_1,
                    target |-> connections[k].user_id_2,
                    sharedSeconds |-> connections[k].shared_seconds,
                    sessionCount |-> connections[k].session_count]]]

\* text-connections.ts lines 330-380
transformToTextGraph(connections) ==
    [nodes |-> FoldNodes(<<>>, connections,
                         [k \in 1..Len(connections) |-> connections[k].interaction_score]),
     edges |-> [k \in 1..Len(connections) |->
                   [source |-> connections[k].user_id_1,
                    target |-> connections[k].user_id_2,
                    interactionScore |-> connections[k].interaction_score,
                    sharedChannelCount |-> connections[k].shared_channel_count]]]

\* ------------------------------------------------------------ getTextGraph
StartGetTextGraph(p, guildId, timeRange, maxAgeHours) ==
    /\ p \in callers
    /\ call[p].pc = "idle"
    /\ call' = [call EXCEPT ![p] =
                   [Idle EXCEPT !.op = "getTextGraph", !.pc = "textLastCalculated",
                                !.guildId = guildId, !.timeRange = timeRange,
                                !.maxAgeHours = maxAgeHours]]
    /\ UNCHANGED <<now, messages, text_connections, voice_connections,
                   voice_sessions, member_levels, rpcAvailable, faults, callers, uiVars>>

\* the step a call takes after the staleness test
WhenStaleNever(isStale, recalculate, read) == read
WhenStale(isStale, recalculate, read) == IF isStale THEN recalculate ELSE read

\* lines 396-407: the age of the cache is tested
TextLastCalculated(p) ==
    /\ p \in callers
    /\ call[p].pc = "textLastCalculated"
    /\ IF Fails("textLastCalculated")
       THEN call' = [call EXCEPT ![p] = Throw(call[p], "textLastCalculated")]
       ELSE
       \E lastCalculated \in
            LastCalculatedOf(text_connections, call[p].guildId, call[p].timeRange) :
          LET isStale == IsStale(lastCalculated, now, call[p].maxAgeHours)
          IN  call' = [call EXCEPT ![p].lastCalculated = lastCalculated,
                                   ![p].nowRead = now,
                                   ![p].isStale = isStale,
                                   ![p].pc = WhenStale(isStale, "delete", "readText")]
    /\ UNCHANGED <<now, messages, text_connections, voice_connections,
                   voice_sessions, member_levels, rpcAvailable, faults, callers, uiVars>>

\* lines 409-420: getTextConnections, transformToTextGraph, the result; lines
\* 264-268 and 282-283: when the view fails the base table is read instead
ReadText(p) ==
    /\ p \in callers
    /\ call[p].pc = "readText"
    /\ IF Fails("textView") /\ Fails("textRead")
       THEN call' = [call EXCEPT ![p] = Throw(Swallow(call[p], "textView"), "textRead")]
       ELSE
       \E connections \in
            OrderedDesc(BucketOf(text_connections, call[p].guildId, call[p].timeRange),
                        "interaction_score") :
          LET graph == transformToTextGraph(connections)
          IN  call' = [call EXCEPT
                         ![p].nodes = graph.nodes,
                         ![p].edges = graph.edges,
                         ![p].calculatedAt = IF call[p].isStale THEN now
                                             ELSE call[p].lastCalculated,
                         ![p].errors = IF Fails("textView")
                                       THEN @ \cup {"textView"} ELSE @,
                         ![p].pc = "returned"]
    /\ UNCHANGED <<now, messages, text_connections, voice_connections,
                   voice_sessions, member_levels, rpcAvailable, faults, callers, uiVars>>

\* ------------------------------------------------------- voice overlap
Coalesce(value, default) == IF value = NULL THEN default ELSE value

OverlappingAnyChannel(s1, s2, at) ==
    /\ s1.guild_id = s2.guild_id
    /\ StrLess(s1.user_id, s2.user_id)
    /\ s1.joined_at < Coalesce(s2.left_at, at)
    /\ s2.joined_at < Coalesce(s1.left_at, at)

\* voice-activity.tsx lines 439-444: the join of two sessions
Overlapping(s1, s2, at) ==
    /\ s1.guild_id = s2.guild_id
    /\ s1.channel_id = s2.channel_id
    /\ StrLess(s1.user_id, s2.user_id)
    /\ s1.joined_at < Coalesce(s2.left_at, at)
    /\ s2.joined_at < Coalesce(s1.left_at, at)

OverlapMsSwapped(s1, s2, at) ==
    Max(s1.joined_at, s2.joined_at)
      - Min(Coalesce(s1.left_at, at), Coalesce(s2.left_at, at))

\* voice-activity.tsx lines 433-438: overlap_end - overlap_start, in ms
OverlapMs(s1, s2, at) ==
    Min(Coalesce(s1.left_at, at), Coalesce(s2.left_at, at))
      - Max(s1.joined_at, s2.joined_at)

OverlapsOf(sessions, a, b, at) ==
    {ss \in sessions \X sessions :
        ss[1].user_id = a /\ ss[2].user_id = b /\ Overlapping(ss[1], ss[2], at)}

RECURSIVE SumOverlapMs(_, _)
SumOverlapMs(S, at) ==
    IF S = {} THEN 0
    ELSE LET ss == CHOOSE x \in S : TRUE
         IN  OverlapMs(ss[1], ss[2], at) + SumOverlapMs(S \ {ss}, at)

\* the rows the stored procedure calculate_voice_connections writes (section
\* 4.2): per pair, the seconds shared and the number of overlapping intervals
RpcVoiceRows(guildId, timeRange, at) ==
    LET inWindow == {x \in voice_sessions :
                        /\ x.guild_id = guildId
                        /\ InWindow(x.joined_at, TIME_RANGE_DAYS(timeRange), at)}
    IN  {[guild_id |-> guildId,
          time_range |-> timeRange,
          user_id_1 |-> ab[1],
          user_id_2 |-> ab[2],
          shared_seconds |-> SumOverlapMs(OverlapsOf(inWindow, ab[1], ab[2], at), at) \div 1000,
          session_count |-> Cardinality(OverlapsOf(inWindow, ab[1], ab[2], at)),
          calculated_at |-> at]
         : ab \in {x \in Users \X Users : OverlapsOf(inWindow, x[1], x[2], at) # {}}}

\* where a call goes on once calculateVoiceConnections has finished
AfterVoiceCalc(c) ==
    CASE c.op = "getVoiceGraph" -> "readVoice"
      [] c.op = "getTopFriends" -> "readTop"
      [] c.op = "getCombinedTopFriends" -> "weight"
      [] OTHER -> "returned"

\* part_007 lines 20-33: calculateVoiceConnections, the stored procedure
CalcVoice(p) ==
    /\ p \in callers
    /\ call[p].pc = "voiceRpc"
    /\ IF Fails("voiceRpc")
       THEN /\ voice_connections' = voice_connections
            /\ call' = [call EXCEPT ![p] = [Throw(call[p], "voiceRpc")
                                              EXCEPT !.recalcStarted = TRUE]]
       ELSE /\ voice_connections' =
                   DeleteBucket(voice_connections, call[p].guildId, call[p].timeRange)
                     (+) SetToBag(RpcVoiceRows(call[p].guildId, call[p].timeRange, now))
            /\ call' = [call EXCEPT ![p].pc = AfterVoiceCalc(call[p]),
                                    ![p].recalcStarted = TRUE, ![p].recalcDone = TRUE]
    /\ UNCHANGED <<now, messages, text_connections, voice_sessions,
                   member_levels, rpcAvailable, faults, callers, uiVars>>

\* ----------------------------------------------------------- getVoiceGraph
StartGetVoiceGraph(p, guildId, timeRange, maxAgeHours) ==
    /\ p \in callers
    /\ call[p].pc = "idle"
    /\ call' = [call EXCEPT ![p] =
                   [Idle EXCEPT !.op = "getVoiceGraph", !.pc = "voiceLastCalculated",
                                !.guildId = guildId, !.timeRange = timeRange,
                                !.maxAgeHours = maxAgeHours]]
    /\ UNCHANGED <<now, messages, text_connections, voice_connections,
                   voice_sessions, member_levels, rpcAvailable, faults, callers, uiVars>>

\* part_007 lines 143-154: the age of the cache is tested
VoiceLastCalculated(p) ==
    /\ p \in callers
    /\ call[p].pc = "voiceLastCalculated"
    /\ IF Fails("voiceLastCalculated")
       THEN call' = [call EXCEPT ![p] = Throw(call[p], "voiceLastCalculated")]
       ELSE
       \E lastCalculated \in
            LastCalculatedOf(voice_connections, call[p].guildId, call[p].timeRange) :
          LET isStale == IsStale(lastCalculated, now, call[p].maxAgeHours)
          IN  call' = [call EXCEPT ![p].lastCalculated = lastCalculated,
                                   ![p].nowRead = now,
                                   ![p].isStale = isStale,
                                   ![p].pc = WhenStale(isStale, "voiceRpc", "readVoice")]
    /\ UNCHANGED <<now, messages, text_connections, voice_connections,
                   voice_sessions, member_levels, rpcAvailable, faults, callers, uiVars>>

\* part_007 lines 156-170: getVoiceConnections, transformToGraph, the result
ReadVoice(p) ==
    /\ p \in callers
    /\ call[p].pc = "readVoice"
    /\ IF Fails("voiceRead")
       THEN call' = [call EXCEPT ![p] = Throw(call[p], "voiceRead")]
       ELSE
       \E connections \in
            OrderedDesc(BucketOf(voice_connections, call[p].guildId, call[p].timeRange),
                        "shared_seconds") :
          LET graph == transformToGraph(connections)
          IN  call' = [call EXCEPT
                         ![p].nodes = graph.nodes,
                         ![p].edges = graph.edges,
                         ![p].calculatedAt = IF call[p].isStale THEN now
                                             ELSE call[p].lastCalculated,
                         ![p].pc = "returned"]
    /\ UNCHANGED <<now, messages, text_connections, voice_connections,
                   voice_sessions, member_levels, rpcAvailable, faults, callers, uiVars>>

\* ----------------------------------------------------------- getTopFriends
\* part_007 lines 176-185
hasActiveVoiceSessions(guildId) ==
    Cardinality({x \in voice_sessions : x.guild_id = guildId /\ x.left_at = NULL}) > 0

\* .or(`user_id_1.eq.${userId},user_id_2.eq.${userId}`) on a bucket
RowsOfUser(table, guildId, timeRange, userId) ==
    LET bucket == BucketOf(table, guildId, timeRange)
        keep == {r \in DOMAIN bucket : r.user_id_1 = userId \/ r.user_id_2 = userId}
    IN  [r \in keep |-> bucket[r]]

OtherUser(conn, userId) ==
    IF conn.user_id_1 = userId THEN conn.user_id_2 ELSE conn.user_id_1

StartGetTopFriends(p, guildId, userId, limit) ==
    /\ p \in callers
    /\ call[p].pc = "idle"
    /\ call' = [call EXCEPT ![p] =
                   [Idle EXCEPT !.op = "getTopFriends", !.pc = "activeCheck",
                                !.guildId = guildId, !.timeRange = "all",
                                !.userId = userId, !.limit = limit]]
    /\ UNCHANGED <<now, messages, text_connections, voice_connections,
                   voice_sessions, member_levels, rpcAvailable, faults, callers, uiVars>>

\* part_007 lines 196-201
ActiveCheck(p) ==
    /\ p \in callers
    /\ call[p].pc = "activeCheck"
    /\ LET hasActiveSessions == hasActiveVoiceSessions(call[p].guildId)
       IN  call' = [call EXCEPT ![p].hasActiveSessions = hasActiveSessions,
                                ![p].pc = IF hasActiveSessions THEN "voiceRpc"
                                          ELSE "readTop"]
    /\ UNCHANGED <<now, messages, text_connections, voice_connections,
                   voice_sessions, member_levels, rpcAvailable, faults, callers, uiVars>>

\* part_007 lines 203-226
ReadTop(p) ==
    /\ p \in callers
    /\ call[p].pc = "readTop"
    /\ \E data \in OrderedDesc(RowsOfUser(voice_connections, call[p].guildId, "all",
                                          call[p].userId),
                               "shared_seconds") :
          LET top == SubSeq(data, 1, Min(call[p].limit, Len(data)))
          IN  call' = [call EXCEPT
                         ![p].friends = [k \in 1..Len(top) |->
                                            [user_id |-> OtherUser(top[k], call[p].userId),
                                             shared_seconds |-> top[k].shared_seconds,
                                             session_count |-> top[k].session_count]],
                         ![p].pc = "returned"]
    /\ UNCHANGED <<now, messages, text_connections, voice_connections,
                   voice_sessions, member_levels, rpcAvailable, faults, callers, uiVars>>

\* ------------------------------------------------ getServerActivityWeight
\* lines 37-45: data?.reduce((sum, m) => sum + (m.count || 0), 0) || 0
RECURSIVE SumMessageCount(_)
SumMessageCount(rows) ==
    IF rows = <<>> THEN 0
    ELSE Coalesce(Head(rows).message_count, 0) + SumMessageCount(Tail(rows))

RECURSIVE SumVoiceMinutes(_)
SumVoiceMinutes(rows) ==
    IF rows = <<>> THEN 0
    ELSE Coalesce(Head(rows).voice_minutes, 0) + SumVoiceMinutes(Tail(rows))

MemberLevelsOf(guildId) == SelectSeq(member_levels, LAMBDA m : m.guild_id = guildId)

\* lines 37-69; a query that failed has no data, and its total is 0
ActivityWeightUnguarded(messagesOk, voiceOk, rows) ==
    LET totalMessages == IF messagesOk THEN SumMessageCount(rows) ELSE 0
        totalVoiceMinutes == IF voiceOk THEN SumVoiceMinutes(rows) ELSE 0
        total == totalMessages + totalVoiceMinutes
    IN  [voiceWeight |-> [num |-> totalVoiceMinutes, den |-> total],
         textWeight |-> [num |-> totalMessages, den |-> total],
         totalVoiceMinutes |-> totalVoiceMinutes,
         totalMessages |-> totalMessages]
ActivityWeight(messagesOk, voiceOk, rows) ==
    LET totalMessages == IF messagesOk THEN SumMessageCount(rows) ELSE 0
        totalVoiceMinutes == IF voiceOk THEN SumVoiceMinutes(rows) ELSE 0
        voiceEquivalent == totalVoiceMinutes
        total == totalMessages + voiceEquivalent
    IN  IF total = 0
        THEN [voiceWeight |-> [num |-> 1, den |-> 2],
              textWeight |-> [num |-> 1, den |-> 2],
              totalVoiceMinutes |-> totalVoiceMinutes,
              totalMessages |-> totalMessages]
        ELSE [voiceWeight |-> [num |-> voiceEquivalent, den |-> total],
              textWeight |-> [num |-> totalMessages, den |-> total],
              totalVoiceMinutes |-> totalVoiceMinutes,
              totalMessages |-> totalMessages]

StartGetServerActivityWeight(p, guildId) ==
    /\ p \in callers
    /\ call[p].pc = "idle"
    /\ call' = [call EXCEPT ![p] =
                   [Idle EXCEPT !.op = "getServerActivityWeight", !.pc = "weight",
                                !.guildId = guildId]]
    /\ UNCHANGED <<now, messages, text_connections, voice_connections,
                   voice_sessions, member_levels, rpcAvailable, faults, callers, uiVars>>

\* lines 26-69: the two queries of Promise.all, either of which may fail
GetWeight(p) ==
    /\ p \in callers
    /\ call[p].pc = "weight"
    /\ \E messagesOk \in BOOLEAN, voiceOk \in BOOLEAN :
          call' = [call EXCEPT
                     ![p].weight = ActivityWeight(messagesOk, voiceOk,
                                                  MemberLevelsOf(call[p].guildId)),
                     ![p].pc = IF call[p].op = "getServerActivityWeight"
                               THEN "returned" ELSE "voiceData"]
    /\ UNCHANGED <<now, messages, text_connections, voice_connections,
                   voice_sessions, member_levels, rpcAvailable, faults, callers, uiVars>>

\* --------------------------------------------------- getCombinedTopFriends
StartGetCombinedTopFriends(p, guildId, userId, limit) ==
    /\ p \in callers
    /\ call[p].pc = "idle"
    /\ call' = [call EXCEPT ![p] =
                   [Idle EXCEPT !.op = "getCombinedTopFriends", !.pc = "cacheCheck",
                                !.guildId = guildId, !.timeRange = "all",
                                !.maxAgeHours = DEFAULT_MAX_AGE_HOURS,
                                !.userId = userId, !.limit = limit]]
    /\ UNCHANGED <<now, messages, text_connections, voice_connections,
                   voice_sessions, member_levels, rpcAvailable, faults, callers, uiVars>>

\* lines 492-508: the age of the voice cache of 'all' is tested; the error of
\* the query is not read, a failed query has no data
CacheCheck(p) ==
    /\ p \in callers
    /\ call[p].pc = "cacheCheck"
    /\ \E lastCalculated \in
            IF Fails("cacheCheck") THEN {NULL}
            ELSE LastCalculatedOf(voice_connections, call[p].guildId, "all") :
          LET isStale == IsStale(lastCalculated, now, call[p].maxAgeHours)
          IN  call' = [call EXCEPT ![p].lastCalculated = lastCalculated,
                                   ![p].nowRead = now,
                                   ![p].isStale = isStale,
                                   ![p].errors = IF Fails("cacheCheck")
                                                 THEN @ \cup {"cacheCheck"} ELSE @,
                                   ![p].pc = WhenStale(isStale, "voiceRpc", "weight")]
    /\ UNCHANGED <<now, messages, text_connections, voice_connections,
                   voice_sessions, member_levels, rpcAvailable, faults, callers, uiVars>>

FriendIndex(friendMap, friendId) ==
    LET hits == {k \in 1..Len(friendMap) : friendMap[k].user_id = friendId}
    IN  IF hits = {} THEN 0 ELSE CHOOSE k \in hits : TRUE

NewFriend(friendId) ==
    [user_id |-> friendId, voice_seconds |-> 0, voice_sessions |-> 0,
     text_interaction_score |-> 0, text_shared_channels |-> 0, combined_score |-> 0]

\* lines 549-570: the voice connections are put into friendMap
RECURSIVE MergeVoice(_, _, _)
MergeVoice(friendMap, voiceData, userId) ==
    IF voiceData = <<>> THEN friendMap
    ELSE LET conn == Head(voiceData)
             friendId == OtherUser(conn, userId)
             at == FriendIndex(friendMap, friendId)
             existing == IF at # 0 THEN friendMap[at] ELSE NewFriend(friendId)
             updated == [existing EXCEPT !.voice_seconds = conn.shared_seconds,
                                         !.voice_sessions = conn.session_count]
         IN  MergeVoice(IF at # 0 THEN [friendMap EXCEPT ![at] = updated]
                        ELSE Append(friendMap, updated),
                        Tail(voiceData), userId)

\* lines 573-594: the text connections are put into friendMap
RECURSIVE MergeTextKnownOnly(_, _, _)
MergeTextKnownOnly(friendMap, textData, userId) ==
    IF textData = <<>> THEN friendMap
    ELSE LET conn == Head(textData)
             at == FriendIndex(friendMap, OtherUser(conn, userId))
         IN  MergeTextKnownOnly(
                 IF at # 0
                 THEN [friendMap EXCEPT
                         ![at].text_interaction_score = conn.interaction_score,
                         ![at].text_shared_channels = conn.shared_channel_count]
                 ELSE friendMap,
                 Tail(textData), userId)

RECURSIVE MergeText(_, _, _)
MergeText(friendMap, textData, userId) ==
    IF textData = <<>> THEN friendMap
    ELSE LET conn == Head(textData)
             friendId == OtherUser(conn, userId)
             at == FriendIndex(friendMap, friendId)
             existing == IF at # 0 THEN friendMap[at] ELSE NewFriend(friendId)
             updated == [existing EXCEPT
                           !.text_interaction_score = conn.interaction_score,
                           !.text_shared_channels = conn.shared_channel_count]
         IN  MergeText(IF at # 0 THEN [friendMap EXCEPT ![at] = updated]
                       ELSE Append(friendMap, updated),
                       Tail(textData), userId)

\* lines 514-519 and 549: the voice connections of the user; with voiceError
\* the voice loop is skipped
ReadVoiceData(p) ==
    /\ p \in callers
    /\ call[p].pc = "voiceData"
    /\ IF Fails("voiceData")
       THEN call' = [call EXCEPT ![p] = [Swallow(call[p], "voiceData")
                                          EXCEPT !.friendMap = <<>>, !.pc = "textData"]]
       ELSE
       \E voiceData \in RowLists(RowsOfUser(voice_connections, call[p].guildId, "all",
                                            call[p].userId)) :
          call' = [call EXCEPT
                     ![p].friendMap = MergeVoice(<<>>, voiceData, call[p].userId),
                     ![p].pc = "textData"]
    /\ UNCHANGED <<now, messages, text_connections, voice_connections,
                   voice_sessions, member_levels, rpcAvailable, faults, callers, uiVars>>

\* lines 529-543: the error result or the exception of the text query leaves
\* textData null, and the call goes on without the text loop
OnTextDataErrorThrow(c) == Throw(c, "textData")
OnTextDataError(c) ==
    [Swallow(c, "textData")
        EXCEPT !.pc = IF Len(c.friendMap) = 0 THEN "returned" ELSE "members"]

\* lines 529-598: the text connections of the user; no friend, no result
ReadTextData(p) ==
    /\ p \in callers
    /\ call[p].pc = "textData"
    /\ IF Fails("textData")
       THEN call' = [call EXCEPT ![p] = OnTextDataError(call[p])]
       ELSE
       \E textData \in RowLists(RowsOfUser(text_connections, call[p].guildId, "all",
                                           call[p].userId)) :
          LET friendMap == MergeText(call[p].friendMap, textData, call[p].userId)
          IN  call' = [call EXCEPT
                         ![p].friendMap = friendMap,
                         ![p].pc = IF Len(friendMap) = 0 THEN "returned" ELSE "members"]
    /\ UNCHANGED <<now, messages, text_connections, voice_connections,
                   voice_sessions, member_levels, rpcAvailable, faults, callers, uiVars>>

\* lines 616-630: Math.round(combinedScore * 100) / 100, in hundredths; the
\* text score is in hundredths, a weight is num/den
CombinedScoreTextOnly(friend, weight) ==
    (2 * friend.text_interaction_score * weight.textWeight.num
       + 100 * weight.textWeight.den) \div (2 * 100 * weight.textWeight.den)
CombinedScore(friend, weight) ==
    LET num == friend.voice_seconds * weight.voiceWeight.num * 100 * weight.textWeight.den
                 + 36 * friend.text_interaction_score * weight.textWeight.num
                      * weight.voiceWeight.den
        den == 3600 * weight.voiceWeight.den * weight.textWeight.den
    IN  (2 * num + den) \div (2 * den)

\* lines 636-641: the comparator is negative, a sorts before b
SortsBeforeByScoreOnly(a, b) == b.combined_score - a.combined_score < 0
SortsBefore(a, b) ==
    IF b.combined_score # a.combined_score
    THEN b.combined_score - a.combined_score < 0
    ELSE b.voice_seconds - a.voice_seconds < 0

\* Array.prototype.sort is stable: x goes in front of the first element it
\* sorts before
RECURSIVE InsertSorted(_, _)
InsertSorted(sorted, x) ==
    IF sorted = <<>> THEN <<x>>
    ELSE IF SortsBefore(x, Head(sorted)) THEN <<x>> \o sorted
    ELSE <<Head(sorted)>> \o InsertSorted(Tail(sorted), x)

RECURSIVE SortFriends(_, _)
SortFriends(sorted, friends) ==
    IF friends = <<>> THEN sorted
    ELSE SortFriends(InsertSorted(sorted, Head(friends)), Tail(friends))

\* lines 600-643: member info, the combined scores, the ranking
RankFriends(p) ==
    /\ p \in callers
    /\ call[p].pc = "members"
    /\ LET scored == [k \in 1..Len(call[p].friendMap) |->
                         [call[p].friendMap[k] EXCEPT
                            !.combined_score =
                                CombinedScore(call[p].friendMap[k], call[p].weight)]]
           ranked == SortFriends(<<>>, scored)
       IN  call' = [call EXCEPT
                      ![p].friends = SubSeq(ranked, 1, Min(call[p].limit, Len(ranked))),
                      ![p].pc = "returned"]
    /\ UNCHANGED <<now, messages, text_connections, voice_connections,
                   voice_sessions, member_levels, rpcAvailable, faults, callers, uiVars>>

\* ------------------------------------------------------------ environment
\* the instants at which a call is made or a session ends: the start, a day
\* after the rows cached at 0 and a day after the start, each and 1 ms later
Instants ==
    {NowAtStart, DEFAULT_MAX_AGE_HOURS * MS_PER_HOUR,
     DEFAULT_MAX_AGE_HOURS * MS_PER_HOUR + 1,
     NowAtStart + DEFAULT_MAX_AGE_HOURS * MS_PER_HOUR,
     NowAtStart + DEFAULT_MAX_AGE_HOURS * MS_PER_HOUR + 1}

AdvanceClock ==
    /\ \E t \in Instants : t > now /\ now' = t
    /\ UNCHANGED <<messages, text_connections, voice_connections, voice_sessions,
                   member_levels, rpcAvailable, faults, callers, uiVars, call>>

\* the session capture closes an active session
LeaveVoice ==
    /\ \E x \in voice_sessions :
          /\ x.left_at = NULL
          /\ voice_sessions' = (voice_sessions \ {x}) \cup {[x EXCEPT !.left_at = now]}
    /\ UNCHANGED <<now, messages, text_connections, voice_connections,
                   member_levels, rpcAvailable, faults, callers, uiVars, call>>

\* ------------------------------------------------------ avatar image cache
\* part_006 lines 95-148 (the same function in part_001, part_004, part_012,
\* each module with a cache of its own).  imageCache maps a url to the index
\* of its Image in `images`, 0 when the Map has no entry; loadingCallbacks
\* maps a url to its Set, {} when the Map has no entry.
ImageState ==
    [imageCache |-> imageCache, loadingCallbacks |-> loadingCallbacks,
     images |-> images]

\* imageCache.has(imageUrl)
CacheHasComplete(st, imageUrl) ==
    /\ st.imageCache[imageUrl] # 0
    /\ st.images[st.imageCache[imageUrl]].state = "loaded"
CacheHas(st, imageUrl) == st.imageCache[imageUrl] # 0

\* the module state after getOrLoadImage(url, onLoad)
getOrLoadImage(st, url, onLoad) ==
    LET imageUrl == IF url = NoUrl THEN DEFAULT_AVATAR ELSE url
    IN  IF CacheHas(st, imageUrl)
        THEN LET img == st.images[st.imageCache[imageUrl]]
             IN  IF img.state = "loaded" THEN st
                 ELSE IF onLoad # NoCallback
                      THEN [st EXCEPT !.loadingCallbacks[imageUrl] = @ \cup {onLoad}]
                      ELSE st
        ELSE [imageCache |-> [st.imageCache EXCEPT ![imageUrl] = Len(st.images) + 1],
              loadingCallbacks |->
                  IF onLoad # NoCallback
                  THEN [st.loadingCallbacks EXCEPT ![imageUrl] = {onLoad}]
                  ELSE st.loadingCallbacks,
              images |-> Append(st.images,
                                [url |-> imageUrl, state |-> "loading",
                                 onLoad |-> onLoad])]

\* the canvas painter, or any other caller, asks for an image
GetOrLoadImage(url, onLoad) ==
    /\ LET st == getOrLoadImage(ImageState, url, onLoad)
       IN  /\ Len(st.images) <= MaxImages
           /\ imageCache' = st.imageCache
           /\ loadingCallbacks' = st.loadingCallbacks
           /\ images' = st.images
    /\ UNCHANGED <<now, messages, text_connections, voice_connections,
                   voice_sessions, member_levels, rpcAvailable, faults, callers,
                   call, selectedRange, graphData, loads, timeline>>

\* img.onload, lines 126-132: the callbacks are called and dropped
ImgOnload(id) ==
    /\ id \in DOMAIN images
    /\ images[id].state = "loading"
    /\ images' = [images EXCEPT ![id].state = "loaded"]
    /\ loadingCallbacks' = [loadingCallbacks EXCEPT ![images[id].url] = {}]
    /\ UNCHANGED <<now, messages, text_connections, voice_connections,
                   voice_sessions, member_levels, rpcAvailable, faults, callers,
                   call, selectedRange, graphData, loads, imageCache, timeline>>

\* img.onerror, lines 134-140: the entry is dropped and the default avatar is
\* asked for instead
ImgOnerror(id) ==
    /\ id \in DOMAIN images
    /\ images[id].state = "loading"
    /\ LET imageUrl == images[id].url
           dropped == [imageCache |-> [imageCache EXCEPT ![imageUrl] = 0],
                       loadingCallbacks |-> [loadingCallbacks EXCEPT ![imageUrl] = {}],
                       images |-> [images EXCEPT ![id].state = "broken"]]
           st == IF imageUrl # DEFAULT_AVATAR /\ images[id].onLoad # NoCallback
                 THEN getOrLoadImage(dropped, DEFAULT_AVATAR, images[id].onLoad)
                 ELSE dropped
       IN  /\ Len(st.images) <= MaxImages
           /\ imageCache' = st.imageCache
           /\ loadingCallbacks' = st.loadingCallbacks
           /\ images' = st.images
    /\ UNCHANGED <<now, messages, text_connections, voice_connections,
                   voice_sessions, member_levels, rpcAvailable, faults, callers,
                   call, selectedRange, graphData, loads, timeline>>

\* ------------------------------------------------- graph components
\* useEffect(..., [serverId, timeRange]) of the three components.  A run of
\* loadData is a record: the timeRange it was started for, its `cancelled`
\* flag, whether its response has arrived, and whether the request failed.
\* graphData[c] is the time range of the graph that component c shows.
\* part_012 line 191 and part_006 line 443 declare `let cancelled = false`;
\* the effect of VoiceConnectionGraph (part_001 lines 250-290) has no flag
HasCancelFlag(component) == component # "VoiceConnectionGraph"

NewLoad(r) == [timeRange |-> r, cancelled |-> FALSE, arrived |-> FALSE, failed |-> FALSE]

\* the cleanup of the previous effect: cancelled = true (part_012 lines 241-243)
Cleanup(component, runs) ==
    IF HasCancelFlag(component)
    THEN [k \in DOMAIN runs |-> [runs[k] EXCEPT !.cancelled = TRUE]]
    ELSE runs

\* a time-range button is clicked (part_012 line 372): the state changes, the
\* previous effect is cleaned up and the effect runs again
SetTimeRange(component, r) ==
    /\ Len(loads[component]) \in 1..(MaxLoads - 1)
    /\ r # selectedRange[component]
    /\ selectedRange' = [selectedRange EXCEPT ![component] = r]
    /\ loads' = [loads EXCEPT ![component] = Append(Cleanup(component, @), NewLoad(r))]
    /\ UNCHANGED <<now, messages, text_connections, voice_connections,
                   voice_sessions, member_levels, rpcAvailable, faults, callers,
                   call, graphData, imageCache, loadingCallbacks, images, timeline>>

\* the awaited request of a run of loadData settles (part_012 lines 196-236):
\* a cancelled run returns, a failed one only logs, another one sets graphData
LoadResponse(component, k, ok) ==
    /\ k \in DOMAIN loads[component]
    /\ ~loads[component][k].arrived
    /\ loads' = [loads EXCEPT ![component][k].arrived = TRUE,
                              ![component][k].failed = ~ok]
    /\ graphData' = IF ok /\ ~loads[component][k].cancelled
                    THEN [graphData EXCEPT ![component] = loads[component][k].timeRange]
                    ELSE graphData
    /\ UNCHANGED <<now, messages, text_connections, voice_connections,
                   voice_sessions, member_levels, rpcAvailable, faults, callers,
                   call, selectedRange, imageCache, loadingCallbacks, images, timeline>>

\* ---------------------------------------------------------- voice timeline
\* voice-timeline.tsx lines 109-216 (the same function in loading.tsx lines
\* 240-341).  A percentage is kept exact as its numerator over `duration`:
\* startPercent = startNum / duration, widthPercent = widthNum / duration.
\* A colour is named by its key in STATE_COLORS; a label is the list that
\* getLabel joins with ', '.
InitialVoiceState ==
    [muted |-> FALSE, deafened |-> FALSE, streaming |-> FALSE, video |-> FALSE]

\* lines 130-136
GetColor(currentState) ==
    IF currentState.deafened THEN "deafened"
    ELSE IF currentState.streaming THEN "streaming"
    ELSE IF currentState.video THEN "video"
    ELSE IF currentState.muted THEN "muted"
    ELSE "normal"

\* lines 139-145
GetLabel(currentState) ==
    LET states ==
            (IF currentState.deafened THEN <<"Deafened">>
             ELSE IF currentState.muted THEN <<"Muted">> ELSE <<>>)
            \o (IF currentState.streaming THEN <<"Streaming">> ELSE <<>>)
            \o (IF currentState.video THEN <<"Video">> ELSE <<>>)
    IN  IF Len(states) > 0 THEN states ELSE <<"Voice">>

\* lines 163-188: switch (change.event_type)
ApplyEvent(currentState, eventType) ==
    CASE eventType = "mute" -> [currentState EXCEPT !.muted = TRUE]
      [] eventType = "unmute" -> [currentState EXCEPT !.muted = FALSE]
      [] eventType = "deafen" -> [currentState EXCEPT !.deafened = TRUE]
      [] eventType = "undeafen" -> [currentState EXCEPT !.deafened = FALSE]
      [] eventType = "stream_start" -> [currentState EXCEPT !.streaming = TRUE]
      [] eventType = "stream_end" -> [currentState EXCEPT !.streaming = FALSE]
      [] eventType = "video_start" -> [currentState EXCEPT !.video = TRUE]
      [] eventType = "video_end" -> [currentState EXCEPT !.video = FALSE]
      [] OTHER -> currentState

\* lines 153-160 and 196-203: the segment from lastTime to untilTime
SegmentOfFromZero(currentState, lastTime, untilTime, sessionStart) ==
    [startNum |-> 0,
     widthNum |-> (untilTime - lastTime) * 100,
     color |-> GetColor(currentState),
     label |-> GetLabel(currentState)]

SegmentOf(currentState, lastTime, untilTime, sessionStart) ==
    [startNum |-> (lastTime - sessionStart) * 100,
     widthNum |-> (untilTime - lastTime) * 100,
     color |-> GetColor(currentState),
     label |-> GetLabel(currentState)]

\* lines 147-191: for (const change of stateChanges)
RECURSIVE ScanChanges(_, _, _, _, _)
ScanChanges(segments, currentState, lastTime, changes, sessionStart) ==
    IF changes = <<>>
    THEN [segments |-> segments, currentState |-> currentState, lastTime |-> lastTime]
    ELSE LET change == Head(changes)
             changeTime == change.created_at
         IN  ScanChanges(IF changeTime > lastTime
                         THEN Append(segments,
                                     SegmentOf(currentState, lastTime, changeTime,
                                               sessionStart))
                         ELSE segments,
                         ApplyEvent(currentState, change.event_type),
                         changeTime, Tail(changes), sessionStart)

calculateTimelineSegments(session, stateChanges, dateNow) ==
    LET sessionStart == session.joined_at
        sessionEnd == IF session.left_at # NULL THEN session.left_at ELSE dateNow
        duration == sessionEnd - sessionStart
        scanned == ScanChanges(<<>>, InitialVoiceState, sessionStart, stateChanges,
                               sessionStart)
        segments ==
            IF scanned.lastTime < sessionEnd
            THEN Append(scanned.segments,
                        SegmentOf(scanned.currentState, scanned.lastTime, sessionEnd,
                                  sessionStart))
            ELSE scanned.segments
    IN  IF duration <= 0 THEN <<>>
        ELSE IF Len(segments) = 0
             THEN <<[startNum |-> 0, widthNum |-> 100 * duration,
                     color |-> "normal", label |-> <<"Voice">>]>>
             ELSE segments

\* VoiceTimeline has rendered no session yet
NoTimeline ==
    [rendered |-> FALSE, session |-> [joined_at |-> 0, left_at |-> NULL],
     stateChanges |-> <<>>, segments |-> <<>>]

\* voice-timeline.tsx line 342: a session row is rendered
RenderTimeline(session, stateChanges) ==
    /\ ~timeline.rendered
    /\ timeline' = [rendered |-> TRUE, session |-> session,
                    stateChanges |-> stateChanges,
                    segments |-> calculateTimelineSegments(session, stateChanges, now)]
    /\ UNCHANGED <<now, messages, text_connections, voice_connections,
                   voice_sessions, member_levels, rpcAvailable, faults, callers,
                   call, selectedRange, graphData, loads, imageCache,
                   loadingCallbacks, images>>

\* the row is dropped (the list is loaded anew)
DropTimeline ==
    /\ timeline.rendered
    /\ timeline' = NoTimeline
    /\ UNCHANGED <<now, messages, text_connections, voice_connections,
                   voice_sessions, member_levels, rpcAvailable, faults, callers,
                   call, selectedRange, graphData, loads, imageCache,
                   loadingCallbacks, images>>

\* ------------------------------------------------------- specifications
\* a row cached by an earlier pass, for a pair the messages no longer give
StaleRow(guildId, timeRange) ==
    [guild_id |-> guildId, time_range |-> timeRange,
     user_id_1 |-> <<1>>, user_id_2 |-> <<9>>,
     shared_channel_count |-> 1, interaction_score |-> 250,
     message_count |-> 0, calculated_at |-> 0]

MessageValues ==
    [guild_id : Guilds, user_id : Users, channel_id : Channels, created_at : Times]

\* the contents of table messages with at most n rows, in created_at order
MessageLists(n) ==
    {s \in UNION {[1..k -> MessageValues] : k \in 0..n} :
        \A k \in 1..(Len(s) - 1) : s[k].created_at <= s[k + 1].created_at}

\* no graph component is mounted, no image has been asked for
InitUi ==
    /\ selectedRange = [c \in GraphComponents |-> DEFAULT_TIME_RANGE]
    /\ graphData = [c \in GraphComponents |-> "none"]
    /\ loads = [c \in GraphComponents |-> <<>>]
    /\ imageCache = [u \in ImageUrls |-> 0]
    /\ loadingCallbacks = [u \in ImageUrls |-> {}]
    /\ images = <<>>
    /\ timeline = NoTimeline

InitTables ==
    /\ now = NowAtStart
    /\ text_connections = SetToBag({StaleRow("g1", "all"), StaleRow("g1", "30d")})
    /\ voice_connections = EmptyBag
    /\ voice_sessions = {}
    /\ member_levels = <<>>
    /\ call = [p \in Procs |-> Idle]

\* --- the recalculation of the text connections
\* one caller, a datastore without the stored procedure: the recalculation of
\* the text connections by the client-side scorer, call after call
Init ==
    /\ InitTables
    /\ messages \in MessageLists(MaxMsgs)
    /\ rpcAvailable = FALSE
    /\ faults = {}
    /\ callers = {"p1"}
    /\ InitUi

Next ==
    \/ \E p \in Procs : StartCalculateTextConnections(p, "g1", "all")
    \/ \E p \in Procs : CalcDelete(p)
    \/ \E p \in Procs : CalcRpc(p)
    \/ \E p \in Procs : CalcQuery(p)
    \/ \E p \in Procs : CalcInsert(p)
    \/ \E p \in Procs : Return(p)

Spec == Init /\ [][Next]_vars

\* two callers recalculate at the same time; no lock is taken
InitConc ==
    /\ InitTables
    /\ messages \in MessageLists(MaxConcMsgs)
    /\ rpcAvailable = FALSE
    /\ faults = {}
    /\ callers = {"p1", "p2"}
    /\ InitUi

SpecConc == InitConc /\ [][Next]_vars

\* --- the staleness gate: one caller, the clock, sessions that end
MaxAgeChoices == {0, DEFAULT_MAX_AGE_HOURS}

CacheMessages ==
    <<[guild_id |-> "g1", user_id |-> <<1>>, channel_id |-> "c1", created_at |-> 0],
      [guild_id |-> "g1", user_id |-> <<9>>, channel_id |-> "c1", created_at |-> 150000]>>

StaleVoiceRow ==
    [guild_id |-> "g1", time_range |-> "all", user_id_1 |-> <<1>>, user_id_2 |-> <<9>>,
     shared_seconds |-> 60, session_count |-> 1, calculated_at |-> 0]

Session(id, userId, joinedAt, leftAt) ==
    [id |-> id, guild_id |-> "g1", user_id |-> userId, channel_id |-> "v1",
     joined_at |-> joinedAt, left_at |-> leftAt]

ClosedSessions == {Session(1, <<1>>, 0, 200000), Session(2, <<9>>, 100000, 300000)}
ActiveSessions == {Session(1, <<1>>, 0, NULL), Session(2, <<9>>, 100000, 300000)}

InitCache ==
    /\ now = NowAtStart
    /\ messages \in {<<>>, CacheMessages}
    /\ text_connections = SetToBag({StaleRow("g1", "all"), StaleRow("g1", "30d")})
    /\ voice_connections \in {EmptyBag, SetToBag({StaleVoiceRow})}
    /\ voice_sessions \in {ClosedSessions, ActiveSessions}
    /\ member_levels = <<[guild_id |-> "g1", message_count |-> 3, voice_minutes |-> 1]>>
    /\ rpcAvailable \in BOOLEAN
    /\ faults = {}
    /\ callers = {"p1"}
    /\ InitUi
    /\ call = [p \in Procs |-> Idle]

NextCache ==
    \/ AdvanceClock
    \/ LeaveVoice
    \/ \E p \in Procs, h \in MaxAgeChoices : StartGetTextGraph(p, "g1", "all", h)
    \/ \E p \in Procs : TextLastCalculated(p)
    \/ \E p \in Procs : CalcDelete(p)
    \/ \E p \in Procs : CalcRpc(p)
    \/ \E p \in Procs : CalcQuery(p)
    \/ \E p \in Procs : CalcInsert(p)
    \/ \E p \in Procs : ReadText(p)
    \/ \E p \in Procs, h \in MaxAgeChoices : StartGetVoiceGraph(p, "g1", "all", h)
    \/ \E p \in Procs : VoiceLastCalculated(p)
    \/ \E p \in Procs : CalcVoice(p)
    \/ \E p \in Procs : ReadVoice(p)
    \/ \E p \in Procs : StartGetTopFriends(p, "g1", <<1>>, 5)
    \/ \E p \in Procs : ActiveCheck(p)
    \/ \E p \in Procs : ReadTop(p)
    \/ \E p \in Procs : StartGetCombinedTopFriends(p, "g1", <<1>>, 5)
    \/ \E p \in Procs : CacheCheck(p)
    \/ \E p \in Procs : GetWeight(p)
    \/ \E p \in Procs : ReadVoiceData(p)
    \/ \E p \in Procs : ReadTextData(p)
    \/ \E p \in Procs : RankFriends(p)
    \/ \E p \in Procs : Return(p)

SpecCache == InitCache /\ [][NextCache]_vars

\* --- the activity weight over the rows of member_levels
MemberLevelValues ==
    [guild_id : {"g1"}, message_count : {NULL, 0, 3}, voice_minutes : {NULL, 0, 1}]

RECURSIVE MemberLevelLists(_)
MemberLevelLists(n) ==
    IF n = 0 THEN {<<>>}
    ELSE LET shorter == MemberLevelLists(n - 1)
         IN  shorter \cup {Append(s, m) : s \in {x \in shorter : Len(x) = n - 1},
                                          m \in MemberLevelValues}

InitWeight ==
    /\ now = NowAtStart
    /\ messages = <<>>
    /\ text_connections = EmptyBag
    /\ voice_connections = EmptyBag
    /\ voice_sessions = {}
    /\ member_levels \in MemberLevelLists(MaxMembers)
    /\ rpcAvailable = FALSE
    /\ faults = {}
    /\ callers = {"p1"}
    /\ InitUi
    /\ call = [p \in Procs |-> Idle]

NextWeight ==
    \/ \E p \in Procs : StartGetServerActivityWeight(p, "g1")
    \/ \E p \in Procs : GetWeight(p)
    \/ \E p \in Procs : Return(p)

SpecWeight == InitWeight /\ [][NextWeight]_vars


\* --- the reads of fresh caches: the graphs and the combined ranking
\* the viewer and the users that may be friends of the viewer; as strings
\* "1" < "2" < "9", so the viewer is user_id_2 of one row and user_id_1 of another
Viewer == <<2>>
FriendIds == <<<<1>>, <<9>>, <<1, 0>>>>
Friends == {FriendIds[k] : k \in 1..MaxFriends}

VoiceSecondsChoices == {60, 3600}
\* 100.00, in hundredths
TextScoreChoices == {10000}
LimitChoices == {1, 5}

VoiceRow(a, b, sharedSeconds) ==
    [guild_id |-> "g1", time_range |-> "all",
     user_id_1 |-> PairKey(a, b)[1], user_id_2 |-> PairKey(a, b)[2],
     shared_seconds |-> sharedSeconds, session_count |-> 1,
     calculated_at |-> NowAtStart]

TextRow(a, b, interactionScore) ==
    [guild_id |-> "g1", time_range |-> "all",
     user_id_1 |-> PairKey(a, b)[1], user_id_2 |-> PairKey(a, b)[2],
     shared_channel_count |-> 1, interaction_score |-> interactionScore,
     message_count |-> 0, calculated_at |-> NowAtStart]

\* a row of two users that are not the viewer, in either table
OthersVoiceRow == VoiceRow(FriendIds[1], FriendIds[2], 600)
OthersTextRow == TextRow(FriendIds[1], FriendIds[2], 250)

\* per friend: no row, or a row with one of the metrics
VoiceTables ==
    {SetToBag({OthersVoiceRow} \cup {VoiceRow(Viewer, f, m[f]) : f \in {x \in Friends : m[x] # NULL}})
        : m \in [Friends -> VoiceSecondsChoices \cup {NULL}]}

TextTables ==
    {SetToBag({OthersTextRow} \cup {TextRow(Viewer, f, m[f]) : f \in {x \in Friends : m[x] # NULL}})
        : m \in [Friends -> TextScoreChoices \cup {NULL}]}

InitRead ==
    /\ now = NowAtStart
    /\ messages = <<>>
    /\ text_connections \in TextTables
    /\ voice_connections \in VoiceTables
    /\ voice_sessions = {}
    /\ member_levels \in
           {<<>>, <<[guild_id |-> "g1", message_count |-> 3, voice_minutes |-> 1]>>}
    /\ rpcAvailable = FALSE
    /\ faults = {}
    /\ callers = {"p1"}
    /\ InitUi
    /\ call = [p \in Procs |-> Idle]

NextRead ==
    \/ \E p \in Procs : StartGetTextGraph(p, "g1", "all", DEFAULT_MAX_AGE_HOURS)
    \/ \E p \in Procs : TextLastCalculated(p)
    \/ \E p \in Procs : ReadText(p)
    \/ \E p \in Procs : StartGetVoiceGraph(p, "g1", "all", DEFAULT_MAX_AGE_HOURS)
    \/ \E p \in Procs : VoiceLastCalculated(p)
    \/ \E p \in Procs : ReadVoice(p)
    \/ \E p \in Procs, n \in LimitChoices : StartGetCombinedTopFriends(p, "g1", Viewer, n)
    \/ \E p \in Procs : CacheCheck(p)
    \/ \E p \in Procs : GetWeight(p)
    \/ \E p \in Procs : ReadVoiceData(p)
    \/ \E p \in Procs : ReadTextData(p)
    \/ \E p \in Procs : RankFriends(p)
    \/ \E p \in Procs : Return(p)

SpecRead == InitRead /\ [][NextRead]_vars

\* --- the calls on a datastore that answers some of the queries with an error
FaultPoints ==
    {"textDelete", "messages", "textInsert", "textLastCalculated", "textView",
     "textRead", "voiceRpc", "voiceLastCalculated", "voiceRead", "cacheCheck",
     "voiceData", "textData"}

InitFault ==
    /\ now = NowAtStart
    /\ messages = CacheMessages
    /\ text_connections = SetToBag({StaleRow("g1", "all"), StaleRow("g1", "30d")})
    /\ voice_connections \in {EmptyBag, SetToBag({StaleVoiceRow})}
    /\ voice_sessions = ClosedSessions
    /\ member_levels = <<[guild_id |-> "g1", message_count |-> 3, voice_minutes |-> 1]>>
    /\ rpcAvailable \in BOOLEAN
    /\ faults \in {f \in SUBSET FaultPoints : Cardinality(f) <= MaxFaults}
    /\ callers = {"p1"}
    /\ InitUi
    /\ call = [p \in Procs |-> Idle]

NextFault ==
    \/ \E p \in Procs : StartCalculateTextConnections(p, "g1", "all")
    \/ \E p \in Procs : CalcDelete(p)
    \/ \E p \in Procs : CalcRpc(p)
    \/ \E p \in Procs : CalcQuery(p)
    \/ \E p \in Procs : CalcInsert(p)
    \/ \E p \in Procs, h \in MaxAgeChoices : StartGetTextGraph(p, "g1", "all", h)
    \/ \E p \in Procs : TextLastCalculated(p)
    \/ \E p \in Procs : ReadText(p)
    \/ \E p \in Procs, h \in MaxAgeChoices : StartGetVoiceGraph(p, "g1", "all", h)
    \/ \E p \in Procs : VoiceLastCalculated(p)
    \/ \E p \in Procs : CalcVoice(p)
    \/ \E p \in Procs : ReadVoice(p)
    \/ \E p \in Procs : StartGetCombinedTopFriends(p, "g1", <<1>>, 5)
    \/ \E p \in Procs : CacheCheck(p)
    \/ \E p \in Procs : GetWeight(p)
    \/ \E p \in Procs : ReadVoiceData(p)
    \/ \E p \in Procs : ReadTextData(p)
    \/ \E p \in Procs : RankFriends(p)
    \/ \E p \in Procs : Return(p)

SpecFault == InitFault /\ [][NextFault]_vars

\* --- the graph transformations
\* transformToGraph and transformToTextGraph applied to lists of up to
\* MaxConns connection rows of three users, in any order, a row possibly
\* more than once
GraphUsers == {<<1>>, <<2>>, <<9>>}
GraphPairs == {ab \in GraphUsers \X GraphUsers : StrLess(ab[1], ab[2])}
SharedSecondsChoices == {600, 1800}
\* 2.50 and 100.00, in hundredths
InteractionScoreChoices == {250, 10000}

VoiceConnectionLists ==
    UNION {[1..n -> {VoiceRow(ab[1], ab[2], m) :
                        ab \in GraphPairs, m \in SharedSecondsChoices}]
           : n \in 0..MaxConns}

TextConnectionLists ==
    UNION {[1..n -> {TextRow(ab[1], ab[2], m) :
                        ab \in GraphPairs, m \in InteractionScoreChoices}]
           : n \in 0..MaxConns}

TransformToGraph(p) ==
    /\ p \in callers
    /\ call[p].pc = "idle"
    /\ \E connections \in VoiceConnectionLists :
          LET graph == transformToGraph(connections)
          IN  call' = [call EXCEPT ![p] =
                         [Idle EXCEPT !.op = "transformToGraph", !.pc = "returned",
                                      !.connections = connections,
                                      !.nodes = graph.nodes,
                                      !.edges = graph.edges]]
    /\ UNCHANGED <<now, messages, text_connections, voice_connections,
                   voice_sessions, member_levels, rpcAvailable, faults, callers, uiVars>>

TransformToTextGraph(p) ==
    /\ p \in callers
    /\ call[p].pc = "idle"
    /\ \E connections \in TextConnectionLists :
          LET graph == transformToTextGraph(connections)
          IN  call' = [call EXCEPT ![p] =
                         [Idle EXCEPT !.op = "transformToTextGraph", !.pc = "returned",
                                      !.connections = connections,
                                      !.nodes = graph.nodes,
                                      !.edges = graph.edges]]
    /\ UNCHANGED <<now, messages, text_connections, voice_connections,
                   voice_sessions, member_levels, rpcAvailable, faults, callers, uiVars>>

InitGraph ==
    /\ InitTables
    /\ messages = <<>>
    /\ rpcAvailable = FALSE
    /\ faults = {}
    /\ callers = {"p1"}
    /\ InitUi

NextGraph ==
    \/ \E p \in Procs : TransformToGraph(p)
    \/ \E p \in Procs : TransformToTextGraph(p)
    \/ \E p \in Procs : Return(p)

SpecGraph == InitGraph /\ [][NextGraph]_vars

\* --- the voice overlap calculation
\* calculateVoiceConnections, run again and again while the clock advances,
\* on up to MaxSessions sessions of two users in two voice channels; the
\* sessions start at 10:00 or 10:15 and end at 10:15, 10:30, 10:45 or not yet
QuarterHour == MS_PER_HOUR \div 4
VoiceNow == 3 * QuarterHour
VoiceChannels == {"v1", "v2"}
VoiceUsers == {<<1>>, <<9>>}

VoiceSessionValues ==
    {[user_id |-> u, channel_id |-> c, joined_at |-> j, left_at |-> l] :
        u \in VoiceUsers, c \in VoiceChannels,
        j \in {0, QuarterHour},
        l \in {QuarterHour, 2 * QuarterHour, 3 * QuarterHour, NULL}}

\* the rows of voice_sessions: a session ends after it starts, and the ids
\* follow the order of joining
VoiceSessionSets ==
    {{[id |-> k, guild_id |-> "g1", user_id |-> v[k].user_id,
       channel_id |-> v[k].channel_id, joined_at |-> v[k].joined_at,
       left_at |-> v[k].left_at] : k \in DOMAIN v}
     : v \in {w \in UNION {[1..n -> VoiceSessionValues] : n \in 0..MaxSessions} :
                 /\ \A k \in DOMAIN w :
                       w[k].left_at # NULL => w[k].joined_at < w[k].left_at
                 /\ \A k \in 1..(Len(w) - 1) : w[k].joined_at <= w[k + 1].joined_at}}

\* part_007 lines 20-33, called by itself
StartCalculateVoiceConnections(p, guildId, timeRange) ==
    /\ p \in callers
    /\ call[p].pc = "idle"
    /\ call' = [call EXCEPT ![p] =
                   [Idle EXCEPT !.op = "calculateVoiceConnections", !.pc = "voiceRpc",
                                !.guildId = guildId, !.timeRange = timeRange,
                                !.before = BucketOf(voice_connections, guildId, timeRange)]]
    /\ UNCHANGED <<now, messages, text_connections, voice_connections,
                   voice_sessions, member_levels, rpcAvailable, faults, callers, uiVars>>

InitVoice ==
    /\ now = VoiceNow
    /\ messages = <<>>
    /\ text_connections = EmptyBag
    /\ voice_connections = EmptyBag
    /\ voice_sessions \in VoiceSessionSets
    /\ member_levels = <<>>
    /\ rpcAvailable = FALSE
    /\ faults = {}
    /\ callers = {"p1"}
    /\ InitUi
    /\ call = [p \in Procs |-> Idle]

NextVoice ==
    \/ AdvanceClock
    \/ \E p \in Procs : StartCalculateVoiceConnections(p, "g1", "all")
    \/ \E p \in Procs : CalcVoice(p)
    \/ \E p \in Procs : Return(p)

SpecVoice == InitVoice /\ [][NextVoice]_vars

\* --- one calculation pass and the clock
\* calculateTextConnections by the client-side scorer, call after call, while
\* the clock advances by up to MaxTick ms in all
PassMessages ==
    <<[guild_id |-> "g1", user_id |-> <<1>>, channel_id |-> "c1", created_at |-> 0],
      [guild_id |-> "g1", user_id |-> <<9>>, channel_id |-> "c1", created_at |-> 1],
      [guild_id |-> "g1", user_id |-> <<1, 0>>, channel_id |-> "c1",
       created_at |-> 150000]>>

PassRanges == {"30d", "all"}

InitPass ==
    /\ InitTables
    /\ messages \in {<<>>, CacheMessages, PassMessages}
    /\ rpcAvailable = FALSE
    /\ faults = {}
    /\ callers = {"p1"}
    /\ InitUi

NextPass ==
    \/ \E p \in Procs, r \in PassRanges : StartCalculateTextConnections(p, "g1", r)
    \/ \E p \in Procs : CalcDelete(p)
    \/ \E p \in Procs : CalcRpc(p)
    \/ \E p \in Procs : CalcQueryStamped(p, NowAtStart + MaxTick - now)
    \/ \E p \in Procs : CalcInsert(p)
    \/ \E p \in Procs : Return(p)

SpecPass == InitPass /\ [][NextPass]_vars

\* --- the avatar image cache of one graph module
\* images are asked for, with or without a callback, and load or fail in any
\* order; at most MaxImages Image objects are created
InitImage ==
    /\ InitTables
    /\ messages = <<>>
    /\ rpcAvailable = FALSE
    /\ faults = {}
    /\ callers = {"p1"}
    /\ InitUi

NextImage ==
    \/ \E url \in {NoUrl, "a.png", "b.png"}, onLoad \in Callbacks \cup {NoCallback} :
          GetOrLoadImage(url, onLoad)
    \/ \E id \in 1..MaxImages : ImgOnload(id)
    \/ \E id \in 1..MaxImages : ImgOnerror(id)

SpecImage == InitImage /\ [][NextImage]_vars

\* --- a graph component and its time-range buttons
\* one of the three components is mounted, its first load in flight; the user
\* clicks time ranges while the responses arrive in any order
InitSelect ==
    /\ InitTables
    /\ messages = <<>>
    /\ rpcAvailable = FALSE
    /\ faults = {}
    /\ callers = {"p1"}
    /\ selectedRange = [c \in GraphComponents |-> DEFAULT_TIME_RANGE]
    /\ graphData = [c \in GraphComponents |-> "none"]
    /\ \E mounted \in GraphComponents :
          loads = [c \in GraphComponents |->
                      IF c = mounted THEN <<NewLoad(DEFAULT_TIME_RANGE)>> ELSE <<>>]
    /\ imageCache = [u \in ImageUrls |-> 0]
    /\ loadingCallbacks = [u \in ImageUrls |-> {}]
    /\ images = <<>>
    /\ timeline = NoTimeline

NextSelect ==
    \/ \E c \in GraphComponents, r \in TimeRanges : SetTimeRange(c, r)
    \/ \E c \in GraphComponents, k \in 1..MaxLoads, ok \in BOOLEAN :
          LoadResponse(c, k, ok)

SpecSelect == InitSelect /\ [][NextSelect]_vars

\* --- the voice timeline
\* calculateTimelineSegments applied to a session that started at 0 and ended
\* at once, after 5 minutes, or not yet (Date.now() = NowAtStart), with up to
\* MaxChanges state changes at any of four times, in any order
TimelineSessions ==
    {[joined_at |-> 0, left_at |-> l] : l \in {0, 300000, NULL}}
TimelineChangeTimes == {0, 100000, 300000, NowAtStart}
TimelineEvents == {"mute", "unmute", "deafen", "stream_start"}

StateChangeLists ==
    UNION {[1..n -> [created_at : TimelineChangeTimes, event_type : TimelineEvents]]
           : n \in 0..MaxChanges}

InitTimeline ==
    /\ InitTables
    /\ messages = <<>>
    /\ rpcAvailable = FALSE
    /\ faults = {}
    /\ callers = {"p1"}
    /\ InitUi

NextTimeline ==
    \/ \E session \in TimelineSessions, stateChanges \in StateChangeLists :
          RenderTimeline(session, stateChanges)
    \/ DropTimeline

SpecTimeline == InitTimeline /\ [][NextTimeline]_vars

\* --- buckets side by side
\* two guilds with two cached buckets each; up to two callers recalculate
\* any of the four buckets with the client-side scorer, also at the same time
FrameGuilds == {"g1", "g2"}
FrameRanges == {"30d", "all"}

FrameMessages ==
    <<[guild_id |-> "g1", user_id |-> <<1>>, channel_id |-> "c1", created_at |-> 0],
      [guild_id |-> "g1", user_id |-> <<1, 0>>, channel_id |-> "c1", created_at |-> 1],
      [guild_id |-> "g2", user_id |-> <<1>>, channel_id |-> "c2", created_at |-> 1],
      [guild_id |-> "g2", user_id |-> <<9>>, channel_id |-> "c2",
       created_at |-> 150000]>>

InitFrame ==
    /\ now = NowAtStart
    /\ text_connections =
           SetToBag({StaleRow(g, r) : g \in FrameGuilds, r \in FrameRanges})
    /\ voice_connections = EmptyBag
    /\ voice_sessions = {}
    /\ member_levels = <<>>
    /\ call = [p \in Procs |-> Idle]
    /\ messages = FrameMessages
    /\ rpcAvailable = FALSE
    /\ faults = {}
    /\ callers = Procs
    /\ InitUi

NextFrame ==
    \/ \E p \in Procs, g \in FrameGuilds, r \in FrameRanges :
          StartCalculateTextConnections(p, g, r)
    \/ \E p \in Procs : CalcDelete(p)
    \/ \E p \in Procs : CalcRpc(p)
    \/ \E p \in Procs : CalcQuery(p)
    \/ \E p \in Procs : CalcInsert(p)
    \/ \E p \in Procs : Return(p)

SpecFrame == InitFrame /\ [][NextFrame]_vars

\* --- a reader beside a recalculation
\* one caller recalculates bucket (g1, all) with the client-side scorer while
\* another asks for the text graph of the same bucket, whose cache is fresh
InitShare ==
    /\ InitTables
    /\ messages = PassMessages
    /\ rpcAvailable = FALSE
    /\ faults = {}
    /\ callers = Procs
    /\ InitUi

NextShare ==
    \/ StartCalculateTextConnections("p1", "g1", "all")
    \/ StartGetTextGraph("p2", "g1", "all", DEFAULT_MAX_AGE_HOURS)
    \/ \E p \in Procs : TextLastCalculated(p)
    \/ \E p \in Procs : CalcDelete(p)
    \/ \E p \in Procs : CalcRpc(p)
    \/ \E p \in Procs : CalcQuery(p)
    \/ \E p \in Procs : CalcInsert(p)
    \/ \E p \in Procs : ReadText(p)
    \/ \E p \in Procs : Return(p)

SpecShare == InitShare /\ [][NextShare]_vars

\* --- one call after another on the same bucket
\* two callers ask for the text graph of bucket (g1, all), one call after the
\* other, while the clock advances; the cached row is 400 s old, so a call
\* with maxAgeHours = 0 recalculates; the guild has messages that give a
\* pair, or none
CallInTurn(p, maxAgeHours) ==
    /\ \A q \in Procs \ {p} : call[q].pc \in {"idle", "returned"}
    /\ StartGetTextGraph(p, "g1", "all", maxAgeHours)

InitAgain ==
    /\ InitTables
    /\ messages \in {<<>>, CacheMessages}
    /\ rpcAvailable = FALSE
    /\ faults = {}
    /\ callers = Procs
    /\ InitUi

NextAgain ==
    \/ AdvanceClock
    \/ \E p \in Procs, h \in MaxAgeChoices : CallInTurn(p, h)
    \/ \E p \in Procs : TextLastCalculated(p)
    \/ \E p \in Procs : CalcDelete(p)
    \/ \E p \in Procs : CalcRpc(p)
    \/ \E p \in Procs : CalcQuery(p)
    \/ \E p \in Procs : CalcInsert(p)
    \/ \E p \in Procs : ReadText(p)
    \/ \E p \in Procs : Return(p)

SpecAgain == InitAgain /\ [][NextAgain]_vars

\* ------------------------------------------------ claims on the scorer
\* what section 4.3 asks of the scorer, stated on the messages themselves:
\* the pairs of messages of users a and b in one channel at most 5 minutes apart
Contributions(msgs, a, b) ==
    {ij \in (1..Len(msgs)) \X (1..Len(msgs)) :
        /\ ij[1] < ij[2]
        /\ msgs[ij[1]].channel_id = msgs[ij[2]].channel_id
        /\ {msgs[ij[1]].user_id, msgs[ij[2]].user_id} = {a, b}
        /\ Abs(msgs[ij[2]].created_at - msgs[ij[1]].created_at) <= PROXIMITY_WINDOW_MS}

RECURSIVE SumOver(_, _)
SumOver(S, msgs) ==
    IF S = {} THEN 0
    ELSE LET ij == CHOOSE x \in S : TRUE
         IN  (PROXIMITY_WINDOW_MS
                - Abs(msgs[ij[2]].created_at - msgs[ij[1]].created_at))
             + SumOver(S \ {ij}, msgs)

\* the sum of 1 - gap/5min over the contributions, times PROXIMITY_WINDOW_MS
ExactScore(msgs, a, b) == SumOver(Contributions(msgs, a, b), msgs)

ContributingChannels(msgs, a, b) ==
    {msgs[ij[1]].channel_id : ij \in Contributions(msgs, a, b)}

\* the rows of a pass that are about the users a and b, in either order
RowsOfPair(rows, a, b) ==
    {k \in 1..Len(rows) : {rows[k].user_id_1, rows[k].user_id_2} = {a, b}}

\* a client-side pass has computed its rows
Scored(p) == call[p].fallback /\ call[p].pc \in {"insert", "returned"}
\* a client-side pass has written its rows
Written(p) == call[p].fallback /\ call[p].pc = "returned"

UserPairs == {ab \in Users \X Users : ab[1] # ab[2]}

\* C6: every row written by the client-side calculation has user_id_1 <
\* user_id_2 as strings, and one pass writes no unordered pair of users twice:
\* each row of the pass is in the bucket once, and no two rows of the bucket
\* are about the same two users.
C6_CanonicalPairWrittenOnce ==
    \A p \in callers : Written(p) =>
        LET rows == call[p].connections
            bucket == BucketOf(text_connections, call[p].guildId, call[p].timeRange)
        IN  /\ \A k \in 1..Len(rows) :
                  /\ StrLess(rows[k].user_id_1, rows[k].user_id_2)
                  /\ rows[k] \in DOMAIN bucket
            /\ \A r \in DOMAIN bucket :
                  /\ StrLess(r.user_id_1, r.user_id_2)
                  /\ bucket[r] = 1
                  /\ \A q \in DOMAIN bucket :
                        {q.user_id_1, q.user_id_2} = {r.user_id_1, r.user_id_2} => q = r

\* a pass has written two rows, one of them for the users "9" and "10", whose
\* string order ("10" < "9") is not the order of their first messages
C6_Witness ==
    \E p \in callers :
        /\ Written(p)
        /\ Len(call[p].connections) >= 2
        /\ \E k \in 1..Len(call[p].connections) :
              /\ call[p].connections[k].user_id_1 = <<1, 0>>
              /\ call[p].connections[k].user_id_2 = <<9>>
        /\ \E i, j \in 1..Len(call[p].msgs) :
              /\ i < j
              /\ call[p].msgs[i].user_id = <<9>>
              /\ call[p].msgs[j].user_id = <<1, 0>>

\* the messages with the authors a and b exchanged
SwapAuthors(msgs, a, b) ==
    [k \in 1..Len(msgs) |->
        [msgs[k] EXCEPT !.user_id = IF @ = a THEN b ELSE IF @ = b THEN a ELSE @]]

PairView(rows, a, b) ==
    {[user_id_1 |-> rows[k].user_id_1, user_id_2 |-> rows[k].user_id_2,
      interaction_score |-> rows[k].interaction_score,
      shared_channel_count |-> rows[k].shared_channel_count] : k \in RowsOfPair(rows, a, b)}

\* C7: pair-key symmetry: the calculation on the messages and on the messages
\* with the authors a and b exchanged gives the same key, interaction_score and
\* shared_channel_count for the pair of a and b.  (Exchanging a and b is
\* exchanging b and a: one order of each pair is enough.)
C7_PairKeySymmetry ==
    \A p \in callers : Scored(p) =>
        \A ab \in {xy \in UserPairs : StrLess(xy[1], xy[2])} :
            LET swapped == ConnectionRows(
                               ConnectionScores(SwapAuthors(call[p].msgs, ab[1], ab[2])),
                               call[p].guildId, call[p].timeRange, now)
            IN  PairView(call[p].connections, ab[1], ab[2])
                  = PairView(swapped, ab[1], ab[2])

\* a pass has a row for "9" and "10" from a message of "9" followed by one of
\* "10": with the authors exchanged the messages come in the other order
C7_Witness ==
    \E p \in callers :
        /\ Scored(p)
        /\ RowsOfPair(call[p].connections, <<9>>, <<1, 0>>) # {}
        /\ Len(call[p].msgs) >= 2
        /\ call[p].msgs[1].user_id = <<9>>
        /\ call[p].msgs[2].user_id = <<1, 0>>
        /\ call[p].msgs[1].created_at < call[p].msgs[2].created_at

\* C8 as stated: the stored interaction_score of a pair is the sum of
\* 1 - gap/5min over its contributions (here: times 100 * PROXIMITY_WINDOW_MS).
C8_StoredScoreIsExactSum ==
    \A p \in callers : Scored(p) =>
        \A ab \in UserPairs :
            \A k \in RowsOfPair(call[p].connections, ab[1], ab[2]) :
                call[p].connections[k].interaction_score * PROXIMITY_WINDOW_MS
                  = 100 * ExactScore(call[p].msgs, ab[1], ab[2])

\* C8 amended: a pair has a row exactly when it has a contribution, and the
\* stored interaction_score is the sum of 1 - gap/5min over its contributions
\* rounded to two decimals, a half rounded up (so a gap of 0 adds 1, 2.5
\* minutes 0.5, 5 minutes 0, and anything else adds nothing).
C8_StoredScoreIsRoundedSum ==
    \A p \in callers : Scored(p) =>
        \A ab \in UserPairs :
            LET at == RowsOfPair(call[p].connections, ab[1], ab[2])
                exact == 100 * ExactScore(call[p].msgs, ab[1], ab[2])
            IN  /\ (at # {}) = (Contributions(call[p].msgs, ab[1], ab[2]) # {})
                /\ \A k \in at :
                      LET stored == call[p].connections[k].interaction_score
                                      * PROXIMITY_WINDOW_MS
                      IN  /\ 2 * (stored - exact) <= PROXIMITY_WINDOW_MS
                          /\ 2 * (exact - stored) < PROXIMITY_WINDOW_MS

\* a pass has scored a pair with a contribution of 0.5 (2.5 minutes) and one
\* of 0 (5 minutes): 0.50 is stored
C8_Witness ==
    \E p \in callers :
        /\ Scored(p)
        /\ \E k \in 1..Len(call[p].connections) :
              /\ call[p].connections[k].interaction_score = 50
              /\ Cardinality(Contributions(call[p].msgs,
                                           call[p].connections[k].user_id_1,
                                           call[p].connections[k].user_id_2)) >= 2

HalfUp(exact) ==
    CHOOSE h \in 0..(exact \div PROXIMITY_WINDOW_MS + 1) :
        /\ 2 * (h * PROXIMITY_WINDOW_MS - exact) <= PROXIMITY_WINDOW_MS
        /\ 2 * (exact - h * PROXIMITY_WINDOW_MS) < PROXIMITY_WINDOW_MS

\* the pair set section 4.3 defines for the messages, as rows of the bucket
PairSet(msgs, guildId, timeRange, calculatedAt) ==
    {[guild_id |-> guildId,
      time_range |-> timeRange,
      user_id_1 |-> ab[1],
      user_id_2 |-> ab[2],
      shared_channel_count |-> Cardinality(ContributingChannels(msgs, ab[1], ab[2])),
      interaction_score |-> HalfUp(100 * ExactScore(msgs, ab[1], ab[2])),
      message_count |-> 0,
      calculated_at |-> calculatedAt]
     : ab \in {x \in UserPairs : /\ StrLess(x[1], x[2])
                                  /\ Contributions(msgs, x[1], x[2]) # {}}}

Completed(p) == call[p].op = "calculateTextConnections" /\ call[p].pc = "returned"

\* C3: a completed recalculation has replaced the bucket: it holds the newly
\* computed pair set, each row once, and nothing else (no row cached before
\* the call unless the pass computed it again); a recalculation of a bucket
\* that a recalculation of the same messages left leaves it as it was.
C3_RecalculationReplacesBucket ==
    \A p \in callers : Completed(p) =>
        LET c == call[p]
            bucket == BucketOf(text_connections, c.guildId, c.timeRange)
            computed == PairSet(c.msgs, c.guildId, c.timeRange, now)
        IN  /\ bucket = SetToBag(computed)
            /\ StaleRow(c.guildId, c.timeRange) \notin DOMAIN bucket
            /\ c.before = SetToBag(computed) => bucket = c.before

\* the second of two recalculations in sequence has completed on a bucket of
\* two rows
C3_Witness ==
    \E p \in callers :
        /\ Completed(p)
        /\ call[p].before = BucketOf(text_connections, call[p].guildId, call[p].timeRange)
        /\ BagCardinality(call[p].before) >= 2


\* C4: two callers that recalculate the same bucket at the same time leave the
\* cached set of a single recalculation: once both have completed, the bucket
\* holds each computed pair once, with its metric counted once.
C4_ConcurrentRecalculationSafe ==
    (\A p \in callers : Completed(p)) =>
        BucketOf(text_connections, "g1", "all")
          = SetToBag(PairSet(messages, "g1", "all", now))


\* ------------------------------------------- claims on the staleness gate
Tested(p) ==
    /\ call[p].op \in {"getVoiceGraph", "getTextGraph", "getCombinedTopFriends"}
    /\ call[p].nowRead # NULL

\* C1: the staleness test of getVoiceGraph, getTextGraph and
\* getCombinedTopFriends: stale without a calculatedAt; stale when now -
\* calculatedAt is more than maxAgeHours (24 for getCombinedTopFriends); not
\* stale otherwise, also when now - calculatedAt is maxAgeHours exactly.
C1_StalenessTest ==
    \A p \in callers : Tested(p) =>
        LET c == call[p]
            age == c.nowRead - c.lastCalculated
            maxAge == c.maxAgeHours * MS_PER_HOUR
        IN  /\ c.lastCalculated = NULL => c.isStale
            /\ c.lastCalculated # NULL /\ age > maxAge => c.isStale
            /\ c.lastCalculated # NULL /\ age = maxAge => ~c.isStale
            /\ c.lastCalculated # NULL /\ age < maxAge => ~c.isStale
            /\ c.op = "getCombinedTopFriends" => c.maxAgeHours = DEFAULT_MAX_AGE_HOURS

\* a test of a cache that is 24 hours old to the millisecond: not stale
C1_Witness ==
    \E p \in callers :
        /\ Tested(p)
        /\ call[p].lastCalculated # NULL
        /\ call[p].maxAgeHours = DEFAULT_MAX_AGE_HOURS
        /\ call[p].nowRead - call[p].lastCalculated = DEFAULT_MAX_AGE_HOURS * MS_PER_HOUR
        /\ ~call[p].isStale

GraphCall(p) == call[p].op \in {"getVoiceGraph", "getTextGraph"}

\* C2: getVoiceGraph and getTextGraph recalculate the bucket if and only if it
\* is stale, the recalculation has finished when the cached set is read, and
\* the isStale flag returned is true exactly when the call has recalculated.
C2_RecalculateIffStale ==
    \A p \in callers : GraphCall(p) =>
        LET c == call[p] IN
        /\ c.recalcStarted => c.isStale
        /\ c.pc \in {"readText", "readVoice", "returned"} =>
              /\ c.isStale = c.recalcStarted
              /\ c.recalcStarted = c.recalcDone
        /\ c.pc = "readText" /\ c.isStale /\ c.fallback =>
              BucketOf(text_connections, c.guildId, c.timeRange)
                = SeqToBag(c.connections)

\* getTextGraph has returned isStale = true with the edges of the rows that
\* its recalculation wrote
C2_Witness ==
    \E p \in callers :
        /\ call[p].op = "getTextGraph"
        /\ call[p].pc = "returned"
        /\ call[p].isStale
        /\ call[p].recalcDone
        /\ call[p].fallback
        /\ Len(call[p].edges) = Len(call[p].connections)
        /\ Len(call[p].edges) > 0

\* C5: when the top friends of a user are requested while a voice session of
\* the guild is active, the voice cache of 'all' is recalculated before it is
\* read, whatever its age.  (Sessions only end here: one that is active when
\* the call returns was active when it was made.)
C5_ActiveSessionForcesRefresh ==
    \A p \in callers :
        /\ call[p].op \in {"getTopFriends", "getCombinedTopFriends"}
        /\ call[p].pc = "returned"
        /\ hasActiveVoiceSessions(call[p].guildId)
        => call[p].recalcDone

\* ------------------------------------------ claims on the activity weight
\* C10: getServerActivityWeight returns textWeight = totalMessages /
\* (totalMessages + totalVoiceMinutes) and voiceWeight = 1 - textWeight, so
\* that the two add up to 1, when the total is not zero, and 0.5 and 0.5,
\* without a division by zero, when it is.
C10_ActivityWeight ==
    \A p \in callers :
        call[p].op = "getServerActivityWeight" /\ call[p].pc = "returned" =>
            LET w == call[p].weight
                t == w.textWeight
                v == w.voiceWeight
                total == w.totalMessages + w.totalVoiceMinutes
            IN  /\ t.den # 0 /\ v.den # 0
                /\ total # 0 =>
                      /\ t.num * total = w.totalMessages * t.den
                      /\ v.num * t.den = (t.den - t.num) * v.den
                      /\ v.num * t.den + t.num * v.den = v.den * t.den
                /\ total = 0 =>
                      /\ 2 * t.num = t.den
                      /\ 2 * v.num = v.den

\* the weight of a guild of 3 messages and 1 voice minute, one of its rows
\* with no count: 3/4 and 1/4
C10_Witness ==
    \E p \in callers :
        /\ call[p].op = "getServerActivityWeight"
        /\ call[p].pc = "returned"
        /\ call[p].weight.totalMessages = 3
        /\ call[p].weight.totalVoiceMinutes = 1
        /\ call[p].weight.textWeight = [num |-> 3, den |-> 4]
        /\ \E k \in 1..Len(member_levels) : member_levels[k].message_count = NULL

\* the weight of a guild with no activity: 0.5 and 0.5
C10_WitnessZero ==
    \E p \in callers :
        /\ call[p].op = "getServerActivityWeight"
        /\ call[p].pc = "returned"
        /\ call[p].weight.totalMessages + call[p].weight.totalVoiceMinutes = 0
        /\ call[p].weight.voiceWeight = [num |-> 1, den |-> 2]


\* ------------------------------------- claims on the combined ranking
Ranked(p) == call[p].op = "getCombinedTopFriends" /\ call[p].pc = "returned"

\* (voiceSeconds/3600) * voiceWeight + (textInteractionScore/100) * textWeight
\* in hundredths, as the fraction CombinedNum / CombinedDen; the text score
\* of a friend is in hundredths
CombinedNum(friend, weight) ==
    100 * 100 * friend.voice_seconds * weight.voiceWeight.num * weight.textWeight.den
      + 3600 * friend.text_interaction_score * weight.textWeight.num
             * weight.voiceWeight.den
CombinedDen(weight) == 100 * 3600 * weight.voiceWeight.den * weight.textWeight.den

WeightsOfGuild(p) ==
    {ActivityWeight(m, v, MemberLevelsOf(call[p].guildId)) : m \in BOOLEAN, v \in BOOLEAN}

\* C11 as stated: the combined_score of every friend returned is
\* (voiceSeconds/3600) * voiceWeight + (textInteractionScore/100) * textWeight.
C11_CombinedScoreIsExact ==
    \A p \in callers : Ranked(p) =>
        \A k \in 1..Len(call[p].friends) :
            call[p].friends[k].combined_score * CombinedDen(call[p].weight)
              = CombinedNum(call[p].friends[k], call[p].weight)

\* C11 amended: the combined_score of every friend returned is that value
\* rounded to two decimals, a half rounded up, with the weights that
\* getServerActivityWeight returned for the guild.
C11_CombinedScoreIsRounded ==
    \A p \in callers : Ranked(p) =>
        /\ call[p].weight \in WeightsOfGuild(p)
        /\ \A k \in 1..Len(call[p].friends) :
              LET stored == call[p].friends[k].combined_score * CombinedDen(call[p].weight)
                  exact == CombinedNum(call[p].friends[k], call[p].weight)
              IN  /\ 2 * (stored - exact) <= CombinedDen(call[p].weight)
                  /\ 2 * (exact - stored) < CombinedDen(call[p].weight)

\* a friend with an hour of voice and a text score of 100 under the weights
\* 1/4 and 3/4 is returned with 1.00; one with a minute of voice and no text
\* score with 0.00
C11_Witness ==
    \E p \in callers :
        /\ Ranked(p)
        /\ call[p].weight.voiceWeight = [num |-> 1, den |-> 4]
        /\ \E k \in 1..Len(call[p].friends) :
              /\ call[p].friends[k].voice_seconds = 3600
              /\ call[p].friends[k].text_interaction_score = 10000
              /\ call[p].friends[k].combined_score = 100
        /\ \E k \in 1..Len(call[p].friends) :
              /\ call[p].friends[k].voice_seconds = 60
              /\ call[p].friends[k].text_interaction_score = 0
              /\ call[p].friends[k].combined_score = 0


\* the candidates of a ranking: the entries of friendMap with their scores
Candidates(p) ==
    {[call[p].friendMap[k] EXCEPT
        !.combined_score = CombinedScore(call[p].friendMap[k], call[p].weight)]
        : k \in 1..Len(call[p].friendMap)}

\* a ranks at least as high as b: a higher combined_score, or the same and at
\* least as many voice_seconds
RanksAtLeast(a, b) ==
    \/ a.combined_score > b.combined_score
    \/ a.combined_score = b.combined_score /\ a.voice_seconds >= b.voice_seconds

\* C12: the list returned by getCombinedTopFriends is the first limit entries
\* of the candidates in descending order of combined_score, equal scores in
\* descending order of voice_seconds: it has min(limit, candidates) entries,
\* each a different candidate, each ranking at least as high as the next, and
\* every candidate left out ranks no higher than any one returned.
C12_TopLimitOfRanking ==
    \A p \in callers : Ranked(p) =>
        LET out == call[p].friends
            returned == {out[k] : k \in 1..Len(out)}
        IN  /\ Len(out) = Min(call[p].limit, Cardinality(Candidates(p)))
            /\ Cardinality(returned) = Len(out)
            /\ returned \subseteq Candidates(p)
            /\ \A k \in 1..(Len(out) - 1) : RanksAtLeast(out[k], out[k + 1])
            /\ \A c \in Candidates(p) \ returned :
                  \A r \in returned :
                      /\ c.combined_score <= r.combined_score
                      /\ RanksAtLeast(r, c)

\* a ranking of two candidates with the same combined_score and limit 1: the
\* one with more voice_seconds is returned, the other is left out
C12_Witness ==
    \E p \in callers :
        /\ Ranked(p)
        /\ call[p].limit = 1
        /\ Len(call[p].friends) = 1
        /\ \E c \in Candidates(p) :
              /\ c.user_id # call[p].friends[1].user_id
              /\ c.combined_score = call[p].friends[1].combined_score
              /\ c.voice_seconds < call[p].friends[1].voice_seconds


\* the list getCombinedTopFriends returns when the datastore returns the
\* voice rows as voiceData and the text rows as textData (lines 545-643)
RankingOf(voiceData, textData, userId, weight, limit) ==
    LET friendMap == MergeText(MergeVoice(<<>>, voiceData, userId), textData, userId)
        scored == [k \in 1..Len(friendMap) |->
                      [friendMap[k] EXCEPT
                         !.combined_score = CombinedScore(friendMap[k], weight)]]
        ranked == SortFriends(<<>>, scored)
    IN  SubSeq(ranked, 1, Min(limit, Len(ranked)))

\* C13: the ranking of getCombinedTopFriends is a deterministic total order:
\* the list returned is the list for every order in which the datastore can
\* return the same voice and text connection rows.
C13_RankingIndependentOfRowOrder ==
    \A p \in callers : Ranked(p) =>
        \A voiceData \in RowLists(RowsOfUser(voice_connections, call[p].guildId, "all",
                                             call[p].userId)) :
            \A textData \in RowLists(RowsOfUser(text_connections, call[p].guildId, "all",
                                                call[p].userId)) :
                RankingOf(voiceData, textData, call[p].userId, call[p].weight,
                          call[p].limit) = call[p].friends


\* the rows of the viewer of call p in a table, and the friend of each
ViewerRows(p, table) ==
    DOMAIN RowsOfUser(table, call[p].guildId, "all", call[p].userId)
FriendsIn(p, table) == {OtherUser(r, call[p].userId) : r \in ViewerRows(p, table)}

\* friendMap is complete
Merged(p) ==
    /\ call[p].op = "getCombinedTopFriends"
    /\ call[p].pc \in {"members", "returned"}

\* C14: the candidates of getCombinedTopFriends are the other participants of
\* the viewer's voice rows and of the viewer's text rows, each once; a
\* candidate with rows of one signal only has the metrics of that row and
\* zero for the other signal, and is returned when limit allows.
C14_OneSignalFriendIsKept ==
    \A p \in callers : Merged(p) =>
        LET fm == call[p].friendMap
            voiceFriends == FriendsIn(p, voice_connections)
            textFriends == FriendsIn(p, text_connections)
        IN  /\ {fm[k].user_id : k \in 1..Len(fm)} = voiceFriends \cup textFriends
            /\ \A j, k \in 1..Len(fm) : fm[j].user_id = fm[k].user_id => j = k
            /\ \A k \in 1..Len(fm) :
                  /\ fm[k].user_id # call[p].userId
                  /\ fm[k].user_id \notin voiceFriends =>
                        fm[k].voice_seconds = 0 /\ fm[k].voice_sessions = 0
                  /\ fm[k].user_id \notin textFriends =>
                        /\ fm[k].text_interaction_score = 0
                        /\ fm[k].text_shared_channels = 0
                  /\ \A r \in ViewerRows(p, voice_connections) :
                        OtherUser(r, call[p].userId) = fm[k].user_id =>
                            /\ fm[k].voice_seconds = r.shared_seconds
                            /\ fm[k].voice_sessions = r.session_count
                  /\ \A r \in ViewerRows(p, text_connections) :
                        OtherUser(r, call[p].userId) = fm[k].user_id =>
                            /\ fm[k].text_interaction_score = r.interaction_score
                            /\ fm[k].text_shared_channels = r.shared_channel_count
            /\ call[p].pc = "returned" /\ call[p].limit >= Len(fm) =>
                  {call[p].friends[k].user_id : k \in 1..Len(call[p].friends)}
                    = voiceFriends \cup textFriends

\* a ranking has returned a friend with a voice row only and a friend with a
\* text row only
C14_Witness ==
    \E p \in callers :
        /\ Ranked(p)
        /\ \E j, k \in 1..Len(call[p].friends) :
              /\ call[p].friends[j].user_id \in FriendsIn(p, voice_connections)
                                                  \ FriendsIn(p, text_connections)
              /\ call[p].friends[j].text_interaction_score = 0
              /\ call[p].friends[j].voice_seconds > 0
              /\ call[p].friends[k].user_id \in FriendsIn(p, text_connections)
                                                  \ FriendsIn(p, voice_connections)
              /\ call[p].friends[k].voice_seconds = 0
              /\ call[p].friends[k].text_interaction_score > 0


\* ---------------------------------------------- claims on error handling
\* C15: when the read of the text connections fails and the read of the voice
\* connections succeeds, getCombinedTopFriends does not fail: it returns the
\* ranking of the voice rows alone, every text metric zero.
C15_TextFailureDegradesToVoice ==
    \A p \in callers :
        /\ call[p].op = "getCombinedTopFriends"
        /\ "textData" \in call[p].errors
        /\ "voiceData" \notin call[p].errors
        => /\ call[p].pc # "failed"
           /\ call[p].pc = "returned" =>
                 /\ \A k \in 1..Len(call[p].friends) :
                       /\ call[p].friends[k].text_interaction_score = 0
                       /\ call[p].friends[k].text_shared_channels = 0
                 /\ \E voiceData \in RowLists(RowsOfUser(voice_connections,
                                                        call[p].guildId, "all",
                                                        call[p].userId)) :
                       call[p].friends = RankingOf(voiceData, <<>>, call[p].userId,
                                                   call[p].weight, call[p].limit)

\* a call whose text read failed has returned a friend of the voice rows, of
\* whom the table has a text row with a score
C15_Witness ==
    \E p \in callers :
        /\ Ranked(p)
        /\ call[p].errors = {"textData"}
        /\ Len(call[p].friends) = 1
        /\ call[p].friends[1].voice_seconds > 0
        /\ \E r \in ViewerRows(p, text_connections) :
              /\ OtherUser(r, call[p].userId) = call[p].friends[1].user_id
              /\ r.interaction_score > 0


CoreOperations ==
    {"calculateTextConnections", "getVoiceGraph", "getTextGraph", "getCombinedTopFriends"}

\* C16: a query failure during a core operation is propagated to the caller
\* as a failure: from the moment a query of the call has failed the call is
\* failed, so it returns no result and makes no further query.  The one
\* failure the design exempts, that of the text read of the combined ranking,
\* is left out.
C16_QueryFailurePropagates ==
    \A p \in callers :
        /\ call[p].op \in CoreOperations
        /\ call[p].errors \ {"textData"} # {}
        => call[p].pc = "failed"


\* C17: on a datastore without the pre-aggregation procedure (and on which no
\* query fails) calculateTextConnections reports no error; it completes by the
\* client-side calculation, and the bucket then holds the rows the
\* client-side scorer computed from the messages, each once.
C17_MissingProcedureFallsBack ==
    \A p \in callers :
        /\ call[p].op = "calculateTextConnections"
        /\ ~rpcAvailable
        /\ faults = {}
        => LET c == call[p]
               scored == ConnectionRows(ConnectionScores(c.msgs), c.guildId,
                                        c.timeRange, now)
           IN  /\ c.pc # "failed"
               /\ c.pc \in {"query", "insert", "returned"} => c.fallback
               /\ c.pc = "returned" =>
                    BucketOf(text_connections, c.guildId, c.timeRange)
                        = SeqToBag(scored)

\* a calculation without the procedure has returned, and left rows
C17_Witness ==
    \E p \in callers :
        /\ call[p].op = "calculateTextConnections"
        /\ call[p].pc = "returned"
        /\ ~rpcAvailable
        /\ faults = {}
        /\ call[p].fallback
        /\ Len(call[p].connections) >= 1
        /\ BucketOf(text_connections, call[p].guildId, call[p].timeRange)
               = SeqToBag(call[p].connections)


\* the table whose bucket a graph call tests
TableOf(c) == IF c.op = "getTextGraph" THEN text_connections ELSE voice_connections

\* C18: a bucket without a cache row is not an error for getVoiceGraph and
\* getTextGraph: the last-calculated read answers null exactly when the bucket
\* has no row, the call is then stale whatever maxAgeHours is, it does not
\* fail, and it has recalculated the bucket before it reads it.
C18_MissingCacheRowIsStale ==
    \A p \in callers : GraphCall(p) /\ Tested(p) =>
        LET c == call[p] IN
        /\ ~c.recalcStarted =>
              (c.lastCalculated = NULL
                 <=> DOMAIN BucketOf(TableOf(c), c.guildId, c.timeRange) = {})
        /\ c.lastCalculated = NULL =>
              /\ c.isStale
              /\ c.pc # "failed"
              /\ c.pc \in {"readText", "readVoice", "returned"} => c.recalcDone

\* getTextGraph, asked with the default maximum age on a bucket that an
\* earlier recalculation left without rows, has recalculated and returned
C18_Witness ==
    \E p \in callers :
        /\ call[p].op = "getTextGraph"
        /\ call[p].maxAgeHours = DEFAULT_MAX_AGE_HOURS
        /\ call[p].pc = "returned"
        /\ call[p].lastCalculated = NULL
        /\ call[p].isStale
        /\ call[p].recalcDone

C18_WitnessVoice ==
    \E p \in callers :
        /\ call[p].op = "getVoiceGraph"
        /\ call[p].maxAgeHours = DEFAULT_MAX_AGE_HOURS
        /\ call[p].pc = "returned"
        /\ call[p].lastCalculated = NULL
        /\ call[p].recalcDone


\* ------------------------------------------ claims on the graph transformation
Transformed(p) ==
    /\ call[p].op \in {"transformToGraph", "transformToTextGraph"}
    /\ call[p].pc = "returned"

\* the primary metric of a connection row and of an edge
MetricOfRow(op, conn) ==
    IF op = "transformToGraph" THEN conn.shared_seconds ELSE conn.interaction_score
MetricOfEdge(op, edge) ==
    IF op = "transformToGraph" THEN edge.sharedSeconds ELSE edge.interactionScore

\* C19: transformToGraph and transformToTextGraph return one edge per input
\* connection, in input order: the k-th edge has the k-th connection's
\* user_id_1 as source, its user_id_2 as target, and its shared_seconds
\* (voice) or interaction_score (text) as metric.
C19_OneEdgePerConnection ==
    \A p \in callers : Transformed(p) =>
        LET c == call[p] IN
        /\ Len(c.edges) = Len(c.connections)
        /\ \A k \in 1..Len(c.connections) :
              /\ c.edges[k].source = c.connections[k].user_id_1
              /\ c.edges[k].target = c.connections[k].user_id_2
              /\ MetricOfEdge(c.op, c.edges[k]) = MetricOfRow(c.op, c.connections[k])

\* three connections, the first and the last of different pairs and metrics,
\* have been transformed
C19_Witness ==
    \E p \in callers :
        /\ Transformed(p)
        /\ Len(call[p].connections) = 3
        /\ Len(call[p].edges) = 3
        /\ call[p].connections[1].user_id_2 # call[p].connections[3].user_id_2
        /\ MetricOfRow(call[p].op, call[p].connections[1])
              # MetricOfRow(call[p].op, call[p].connections[3])

\* the positions of the connections that contain the user
Containing(connections, id) ==
    {k \in 1..Len(connections) :
        id \in {connections[k].user_id_1, connections[k].user_id_2}}

RECURSIVE SumMetric(_, _, _)
SumMetric(op, connections, positions) ==
    IF positions = {} THEN 0
    ELSE LET k == CHOOSE x \in positions : TRUE
         IN  MetricOfRow(op, connections[k])
                + SumMetric(op, connections, positions \ {k})

\* C20: the nodes are the users that occur in an input connection, one node
\* each and none for any other user; a node's totalConnections is the number
\* of input connections that contain the user, its total metric the sum of
\* their shared_seconds (voice) or interaction_score (text).
C20_NodesAggregateConnections ==
    \A p \in callers : Transformed(p) =>
        LET c == call[p]
            occurring == {id \in GraphUsers : Containing(c.connections, id) # {}}
        IN  /\ {c.nodes[k].id : k \in 1..Len(c.nodes)} = occurring
            /\ Len(c.nodes) = Cardinality(occurring)
            /\ \A k \in 1..Len(c.nodes) :
                  LET at == Containing(c.connections, c.nodes[k].id)
                  IN  /\ c.nodes[k].totalConnections = Cardinality(at)
                      /\ c.nodes[k].total = SumMetric(c.op, c.connections, at)

\* the example [AB:1800, BC:600] with A = 1, B = 2, C = 9 has given
\* A(1, 1800), B(2, 2400), C(1, 600)
C20_Witness ==
    \E p \in callers :
        /\ Transformed(p)
        /\ call[p].connections = <<VoiceRow(<<1>>, <<2>>, 1800), VoiceRow(<<2>>, <<9>>, 600)>>
        /\ {call[p].nodes[k] : k \in 1..Len(call[p].nodes)}
              = {[id |-> <<1>>, totalConnections |-> 1, total |-> 1800],
                 [id |-> <<2>>, totalConnections |-> 2, total |-> 2400],
                 [id |-> <<9>>, totalConnections |-> 1, total |-> 600]}


\* ---------------------------------------------- claims on the voice overlap
\* the span of two intervals as section 4.2 defines it, at the time `at`
SpanStart(s1, s2) == Max(s1.joined_at, s2.joined_at)
SpanEnd(s1, s2, at) ==
    Min(IF s1.left_at = NULL THEN at ELSE s1.left_at,
        IF s2.left_at = NULL THEN at ELSE s2.left_at)

\* the interval pairs that count for the users a and b
Counting(a, b, at) ==
    {ss \in voice_sessions \X voice_sessions :
        /\ ss[1].user_id = a
        /\ ss[2].user_id = b
        /\ ss[1].channel_id = ss[2].channel_id
        /\ SpanEnd(ss[1], ss[2], at) > SpanStart(ss[1], ss[2])}

RECURSIVE SumSpans(_, _)
SumSpans(S, at) ==
    IF S = {} THEN 0
    ELSE LET ss == CHOOSE x \in S : TRUE
         IN  (SpanEnd(ss[1], ss[2], at) - SpanStart(ss[1], ss[2]))
                + SumSpans(S \ {ss}, at)

VoiceCalculated(p) ==
    call[p].op = "calculateVoiceConnections" /\ call[p].pc = "returned"

C21_WitnessNoRow ==
    \E p \in callers :
        /\ VoiceCalculated(p)
        /\ {[user_id |-> x.user_id, channel_id |-> x.channel_id,
             joined_at |-> x.joined_at, left_at |-> x.left_at] : x \in voice_sessions}
              = {[user_id |-> <<1>>, channel_id |-> "v1",
                  joined_at |-> 0, left_at |-> 2 * QuarterHour],
                 [user_id |-> <<9>>, channel_id |-> "v2",
                  joined_at |-> QuarterHour, left_at |-> 3 * QuarterHour]}
        /\ voice_connections = EmptyBag


\* C22: with the intervals unchanged, a voice overlap calculation run at a
\* later time gives every pair of the earlier result a sharedSeconds that is
\* at least the earlier one (an interval without leftAt ends "now", and now
\* only grows).
C22_ActiveSessionMonotone ==
    \A p \in callers : VoiceCalculated(p) =>
        \A r1 \in DOMAIN call[p].before :
            \E r2 \in DOMAIN BucketOf(voice_connections, call[p].guildId,
                                      call[p].timeRange) :
                /\ r2.user_id_1 = r1.user_id_1
                /\ r2.user_id_2 = r1.user_id_2
                /\ r2.calculated_at >= r1.calculated_at
                /\ r2.shared_seconds >= r1.shared_seconds

\* two runs at different times with an interval still open: the later run
\* has given the pair more shared seconds than the earlier one
C22_Witness ==
    \E p \in callers :
        /\ VoiceCalculated(p)
        /\ \E x \in voice_sessions : x.left_at = NULL
        /\ \E r1 \in DOMAIN call[p].before, r2 \in DOMAIN voice_connections :
              /\ r2.user_id_1 = r1.user_id_1
              /\ r2.user_id_2 = r1.user_id_2
              /\ r2.calculated_at > r1.calculated_at
              /\ r2.shared_seconds > r1.shared_seconds


\* ------------------------------------------------ claims on the clock
\* C23: within one pass of calculateTextConnections the current time is read
\* once: the rows the pass builds all carry the same calculated_at, and it is
\* the reading from which the lower bound of the time window was derived.
C23_NowReadOncePerPass ==
    [][\A p \in callers :
          call[p].pc = "query" /\ call'[p].pc # "query" =>
             LET rows == call'[p].connections
             IN  /\ \A j, k \in 1..Len(rows) :
                       rows[j].calculated_at = rows[k].calculated_at
                 /\ TIME_RANGE_DAYS(call[p].timeRange) # NULL =>
                       \A k \in 1..Len(rows) : rows[k].calculated_at = now]_vars


\* ------------------------------------------------ claims on the image cache
InFlight(url) ==
    {id \in DOMAIN images : images[id].url = url /\ images[id].state = "loading"}

\* C24: at most one load per url is in flight: an Image that is loading is
\* the one the cache holds for its url, so no second load of the url has been
\* started beside it.
C24_OneLoadInFlightPerUrl ==
    \A url \in ImageUrls :
        /\ Cardinality(InFlight(url)) <= 1
        /\ \A id \in InFlight(url) : imageCache[url] = id

\* a url was loaded a second time after its first load had failed, and a
\* second caller's callback waits for the load in flight
C24_Witness ==
    \E url \in ImageUrls, id \in DOMAIN images :
        /\ images[id].url = url
        /\ images[id].state = "broken"
        /\ Cardinality(InFlight(url)) = 1
        /\ Cardinality(loadingCallbacks[url]) = 2


\* ------------------------------------------- claims on the graph components
Settled(c) ==
    /\ Len(loads[c]) > 0
    /\ \A k \in DOMAIN loads[c] : loads[c][k].arrived
    /\ ~loads[c][Len(loads[c])].failed

C25_FlaggedComponents ==
    \A c \in GraphComponents :
        HasCancelFlag(c) /\ Settled(c) => graphData[c] = selectedRange[c]


\* ------------------------------------------------ claims on the timeline
SessionEndOf(session) == IF session.left_at # NULL THEN session.left_at ELSE now

\* the session has a positive duration, its state changes are in time order
\* and lie between its start and its end
WellFormedTimeline ==
    LET changes == timeline.stateChanges
    IN  /\ timeline.rendered
        /\ SessionEndOf(timeline.session) > timeline.session.joined_at
        /\ \A k \in 1..(Len(changes) - 1) :
              changes[k].created_at <= changes[k + 1].created_at
        /\ \A k \in DOMAIN changes :
              /\ changes[k].created_at >= timeline.session.joined_at
              /\ changes[k].created_at <= SessionEndOf(timeline.session)

\* is the flag set at time t: the last change of the flag at or before t,
\* if any, switched it on
FlagAt(changes, t, on, off) ==
    LET at == {k \in DOMAIN changes :
                  changes[k].created_at <= t /\ changes[k].event_type \in {on, off}}
    IN  /\ at # {}
        /\ changes[CHOOSE k \in at : \A j \in at : j <= k].event_type = on

StateAt(changes, t) ==
    [muted |-> FlagAt(changes, t, "mute", "unmute"),
     deafened |-> FlagAt(changes, t, "deafen", "undeafen"),
     streaming |-> FlagAt(changes, t, "stream_start", "stream_end"),
     video |-> FlagAt(changes, t, "video_start", "video_end")]

\* C26: for a session of positive duration whose state changes are in time
\* order and inside the session, the segments tile the session: the first
\* starts at 0%, each next one starts where the one before ends, every width
\* is positive, the widths sum to 100%, and a segment has the colour and the
\* label of the state in force from its start.
C26_SegmentsTileSession ==
    WellFormedTimeline =>
        LET segs == timeline.segments
            sessionStart == timeline.session.joined_at
            duration == SessionEndOf(timeline.session) - sessionStart
        IN  /\ Len(segs) >= 1
            /\ segs[1].startNum = 0
            /\ \A k \in 1..(Len(segs) - 1) :
                  segs[k + 1].startNum = segs[k].startNum + segs[k].widthNum
            /\ \A k \in DOMAIN segs : segs[k].widthNum > 0
            /\ segs[Len(segs)].startNum + segs[Len(segs)].widthNum = 100 * duration
            /\ \A k \in DOMAIN segs :
                  LET inForce == StateAt(timeline.stateChanges,
                                         sessionStart + segs[k].startNum \div 100)
                  IN  /\ segs[k].color = GetColor(inForce)
                      /\ segs[k].label = GetLabel(inForce)

\* a session of three segments: muted after a while, deafened later
C26_Witness ==
    /\ WellFormedTimeline
    /\ Len(timeline.segments) = 3
    /\ timeline.segments[1].color = "normal"
    /\ timeline.segments[2].color = "muted"
    /\ timeline.segments[3].color = "deafened"
    /\ timeline.segments[3].label = <<"Deafened">>


\* ---------------------------------------------- claims on the cache buckets
\* the rows of a table that are not in bucket (guildId, timeRange)
RowsOutside(table, guildId, timeRange) ==
    LET keep == {r \in DOMAIN table :
                    r.guild_id # guildId \/ r.time_range # timeRange}
    IN  [r \in keep |-> table[r]]

\* C27: a step of calculateTextConnections(g, r) leaves the cached rows of
\* every bucket other than (g, r) as they are: whatever it deletes or inserts
\* has guild_id = g and time_range = r.
C27_OtherBucketsUnchanged ==
    [][\A p \in callers :
          (call[p].op = "calculateTextConnections" /\ call'[p] # call[p]) =>
              RowsOutside(text_connections', call[p].guildId, call[p].timeRange)
                = RowsOutside(text_connections, call[p].guildId, call[p].timeRange)]_vars

\* a recalculation of (g1, all) has deleted the cached row and written a new
\* one, and the three other buckets still hold the row cached before it
C27_Witness ==
    \E p \in callers :
        /\ Completed(p)
        /\ call[p].guildId = "g1" /\ call[p].timeRange = "all"
        /\ BagCardinality(call[p].before) = 1
        /\ StaleRow("g1", "all") \notin DOMAIN text_connections
        /\ BagCardinality(BucketOf(text_connections, "g1", "all")) = 1
        /\ RowsOutside(text_connections, "g1", "all")
             = SetToBag({StaleRow("g1", "30d"), StaleRow("g2", "30d"),
                         StaleRow("g2", "all")})


\* the graphs of a complete set of rows
GraphsOf(rows) ==
    {transformToTextGraph(connections) :
        connections \in OrderedDesc(SetToBag(rows), "interaction_score")}

\* C28: a reader of bucket (g1, all) that runs beside a recalculation of it
\* gets a complete set: the graph of the rows cached before the recalculation
\* or the graph of the newly computed rows, never that of an empty or partly
\* inserted set.
C28_ReaderSeesCompleteSet ==
    \A p \in callers :
        (call[p].op = "getTextGraph" /\ call[p].pc = "returned") =>
            [nodes |-> call[p].nodes, edges |-> call[p].edges]
                \in GraphsOf({StaleRow("g1", "all")})
                    \cup GraphsOf(PairSet(messages, "g1", "all", now))


\* C29: a recalculation that has failed has left the cache as it was: once
\* the message query of the client-side calculation or a batch insert of
\* calculateTextConnections has failed, the bucket holds the rows that were
\* cached for it before the call.
C29_FailedRecalculationKeepsCache ==
    \A p \in callers :
        /\ call[p].recalcStarted
        /\ call[p].errors \cap {"messages", "textInsert"} # {}
        => BucketOf(text_connections, call[p].guildId, call[p].timeRange)
             = call[p].before


\* getTextGraph has returned to p after recalculating the bucket
Recalculated(p) ==
    /\ call[p].op = "getTextGraph"
    /\ call[p].pc = "returned"
    /\ call[p].isStale
    /\ call[p].recalcDone
    /\ call[p].errors = {}

\* C30: a recalculation makes the bucket fresh: when getTextGraph has
\* recalculated the bucket for one caller and returned, the staleness test of
\* the next call for the bucket with the default maxAgeHours, made no later
\* than maxAgeHours after the first call began, finds a calculatedAt, sets
\* isStale = false and goes on to read without recalculating, also when the
\* recalculation produced no connection.
C30_RecalculationMakesFresh ==
    [][\A p, q \in callers :
          (/\ p # q
           /\ Recalculated(p)
           /\ call[q].pc = "textLastCalculated"
           /\ call'[q].pc # "textLastCalculated"
           /\ call[q].guildId = call[p].guildId
           /\ call[q].timeRange = call[p].timeRange
           /\ call[q].maxAgeHours = DEFAULT_MAX_AGE_HOURS
           /\ now - call[p].nowRead <= DEFAULT_MAX_AGE_HOURS * MS_PER_HOUR)
          => /\ call'[q].lastCalculated # NULL
             /\ ~call'[q].isStale
             /\ call'[q].pc = "readText"]_vars

\* the case in which the claim's property is kept: the recalculation wrote a
\* row and the next call finds it
C30_FreshAfterRows ==
    [][\A p, q \in callers :
          (/\ p # q
           /\ Recalculated(p)
           /\ Len(call[p].edges) > 0
           /\ call[q].pc = "textLastCalculated"
           /\ call'[q].pc # "textLastCalculated"
           /\ call[q].maxAgeHours = DEFAULT_MAX_AGE_HOURS
           /\ now - call[p].nowRead <= DEFAULT_MAX_AGE_HOURS * MS_PER_HOUR)
          => /\ call'[q].lastCalculated # NULL
             /\ ~call'[q].isStale
             /\ call'[q].pc = "readText"]_vars

====
